---- MODULE Spec2Model ----
(***************************************************************************)
(* A model of autologic/core/resilience.py: the token-bucket RateLimiter,  *)
(* the error classification of ResilientCaller and ResilientCaller.call    *)
(* (rate limiting, retry with exponential backoff, fallback).              *)
(*                                                                         *)
(* Units.  Time is counted in ticks, TicksPerSec ticks to the second.      *)
(* A rate is stored in tenths of a request per second (0.1 req/s = 1), a   *)
(* token count in units of 1/TokenUnit token with TokenUnit =              *)
(* 10 * TicksPerSec, so that "elapsed * rate" is the integer product of    *)
(* the two stored numbers.                                                 *)
(***************************************************************************)
EXTENDS Integers, Sequences, FiniteSets, TLC

VARIABLES
    \* ---- error classification (pure functions of ResilientCaller)
    errMsg,          \* the text of the exception being classified
    verdict,         \* [done, retryable, fallback]: what the two predicates said
    \* ---- RateLimiter
    rate,            \* self._rate
    tokens,          \* self._tokens
    last_update,     \* self._last_update
    now,             \* time.monotonic()
    lockHolder,      \* the task inside "async with self._lock", or NoTask
    lockWaiters,     \* the tasks queued on the lock, first come first
    lpc,             \* per task: where it is in acquire()
    wakeAt,          \* per task: when its asyncio.sleep ends
    acqDone,         \* per task: acquire() calls that have returned
    lastOp,          \* the last limiter operation that ran, with its argument
    hist,            \* ghost record of the run (start time, waits, grants ...)
    \* ---- ResilientCaller.call
    config,          \* self._config
    callIn,          \* the arguments of the call: fn's script, fallback, override
    pc,              \* where the call is
    attempt,         \* the loop variable of "for attempt in range(attempts)"
    fnCalls,         \* invocations of func so far
    fbCalls,         \* invocations of fallback_func so far
    trace,           \* what the call did, in order: acquire, fn, sleep, fallback
    last_exception,  \* last_exception
    outcome,         \* [kind, value, cause]: returned value or raised error
    fnKwargs,        \* the keyword arguments func was last invoked with
    \* ---- the registry of limiters and the clients of one request
    factory,         \* ProviderFactory._config: the provider of each role
    _resilience_configs, \* per resilience key: its profile, once set
    _rate_limiters,  \* per resilience key: its RateLimiter, once created
    clients,         \* per role: the _resilience_key of its client
    lastRole,        \* the role whose client made the last call, and its key
    roleCalls,       \* client calls made so far
    \* ---- AutoLogicEngine: one cycle
    reasoning_modules, \* self.reasoning_modules, the catalog as loaded
    task,            \* the task the engine, or the critic, was called with
    entry,           \* the method the caller entered the engine by
    epc,             \* where the cycle is: the phase about to run
    max_retries,     \* max_retries of execute_with_critic
    analysis,        \* what analyze_task returned
    selected,        \* what select_modules returned
    adapted,         \* what adapt_modules returned
    structured_plan, \* self.structured_plan
    verification,    \* what verify_plan returned
    current_plan,    \* plan of run_full_cycle, current_plan of the loop
    new_plan,        \* new_plan of the loop: what restructure_plan returned
    loop_attempt,    \* the loop variable of "for attempt in range(max_retries)"
    current_response,\* the candidate of the last EXECUTE
    feedback,        \* the feedback handed to the next EXECUTE
    evaluation,      \* the verdict of the last CRITIQUE
    return_site,     \* which call of synthesize_output is running
    current_output,  \* current_output of synthesize_output
    iteration,       \* iteration of the audit loop
    audit_elapsed,         \* time.time() - start_time of the audit loop, in ticks
    audit_exit,      \* the exit the audit loop took, "none" while it runs
    result,          \* what the cycle returned, or that it raised
    phaseLog,        \* the phases started so far, in order
    lastCalls,       \* model calls made by the last phase that ran
    \* ---- ReasoningPlan: serialization
    plan_log,        \* the dictionaries and plans of a chain of from_dict and to_dict
    \* ---- OpenRouterLLM: the fallback of the gateway clients
    _free_models_cache, \* OpenRouterLLM._free_models_cache, shared by all clients
    fallbacks,       \* per client: where its _fallback_call is, and what it sent
    \* ---- AutoLogicEngine: the events given to progress_callback
    progress         \* the stages left 'active', and the 'Final' events so far

clsVars  == <<errMsg, verdict>>
gwVars   == <<_free_models_cache, fallbacks>>
limVars  == <<rate, tokens, last_update, now>>
taskVars == <<lockHolder, lockWaiters, lpc, wakeAt, acqDone, lastOp, hist>>
callVars == <<config, callIn, pc, attempt, fnCalls, fbCalls, trace,
              last_exception, outcome, fnKwargs>>
roleVars == <<factory, _resilience_configs, _rate_limiters, clients, lastRole,
              roleCalls>>
engVars  == <<reasoning_modules, task, entry, epc, max_retries, analysis, selected,
              adapted, structured_plan, verification, current_plan, new_plan,
              loop_attempt,
              current_response, feedback, evaluation, return_site,
              current_output, iteration, audit_elapsed, audit_exit, result, phaseLog,
              lastCalls, plan_log, gwVars, progress>>
appVars  == <<roleVars, engVars>>
vars     == <<clsVars, limVars, taskVars, callVars, appVars>>

Min(a, b) == IF a < b THEN a ELSE b
Max(a, b) == IF a > b THEN a ELSE b
CeilDiv(a, b) == (a + b - 1) \div b

RECURSIVE Pow2(_)
Pow2(n) == IF n = 0 THEN 1 ELSE 2 * Pow2(n - 1)

(***************************************************************************)
(* Bounds of the model.                                                    *)
(***************************************************************************)
TicksPerSec == 1       \* resolution of the clock
MaxParts    == 2       \* phrases in a classified message
MaxFail     == 3       \* failures fn may be scripted to produce
MaxRetries  == 2       \* largest max_retries of a profile
MaxSeq      == 6       \* acquires of the sequential run
MaxTime     == 1       \* idle clock ticks allowed in the concurrent run
MaxSetRate  == 1       \* set_rate calls in the concurrent run
MaxRoleCalls == 4      \* client calls in a run of the registry
MaxAuditPasses == 1    \* audit passes a cycle is allowed
MaxCallTicks == 1      \* the longest a model call of the audit takes, in ticks
MaxPlanSteps == 2      \* steps of a plan given to from_dict or to_dict

TokenUnit == 10 * TicksPerSec

(***************************************************************************)
(* Text.  str(error).lower() and Python's substring test "sig in text".    *)
(***************************************************************************)
Upper ==
    <<"A", "B", "C", "D", "E", "F", "G", "H", "I", "J", "K", "L", "M",
      "N", "O", "P", "Q", "R", "S", "T", "U", "V", "W", "X", "Y", "Z">>

Lowered ==
    <<"a", "b", "c", "d", "e", "f", "g", "h", "i", "j", "k", "l", "m",
      "n", "o", "p", "q", "r", "s", "t", "u", "v", "w", "x", "y", "z">>

LowerChar(c) ==
    IF \E i \in 1..Len(Upper) : Upper[i] = c
    THEN Lowered[CHOOSE i \in 1..Len(Upper) : Upper[i] = c]
    ELSE c

RECURSIVE Lower(_)
Lower(s) ==
    IF Len(s) = 0 THEN ""
    ELSE LowerChar(SubSeq(s, 1, 1)) \o Lower(SubSeq(s, 2, Len(s)))

Contains(text, sig) ==
    \E i \in 1..(Len(text) - Len(sig) + 1) : SubSeq(text, i, i + Len(sig) - 1) = sig

\* str.strip(): the text without its leading and trailing whitespace.
Whitespace == {" ", "\t", "\n"}

RECURSIVE LStrip(_)
LStrip(s) ==
    IF Len(s) > 0 /\ SubSeq(s, 1, 1) \in Whitespace
    THEN LStrip(SubSeq(s, 2, Len(s)))
    ELSE s

RECURSIVE RStrip(_)
RStrip(s) ==
    IF Len(s) > 0 /\ SubSeq(s, Len(s), Len(s)) \in Whitespace
    THEN RStrip(SubSeq(s, 1, Len(s) - 1))
    ELSE s

Strip(s) == RStrip(LStrip(s))

(***************************************************************************)
(* ResilientCaller's class constants and its two classification methods.   *)
(***************************************************************************)
RETRYABLE_STATUS_CODES == {"429", "500", "502", "503", "504"}

FALLBACK_STATUS_CODES == {"404", "429", "500", "502", "503", "504"}

OPENROUTER_FALLBACK_MESSAGES ==
    {"no endpoints found", "data policy", "model not available",
     "model is currently overloaded", "model unavailable"}

retryable_messages ==
    {"rate limit", "too many requests", "service unavailable", "timeout",
     "connection", "overloaded", "capacity"}

\* A classifier that treats every error as retryable (mutant of
\* _is_retryable_error).
IsRetryableAlways(error) == TRUE

_is_retryable_error(error) ==
    LET error_str == Lower(error) IN
    \/ \E code \in RETRYABLE_STATUS_CODES : Contains(error_str, code)
    \/ \E m \in retryable_messages : Contains(error_str, m)

\* A fallback test that is always satisfied (mutant of _should_fallback).
ShouldFallbackAlways(error) == TRUE

_should_fallback(error) ==
    LET error_str == Lower(error) IN
    \/ \E code \in FALLBACK_STATUS_CODES : Contains(error_str, code)
    \/ \E m \in OPENROUTER_FALLBACK_MESSAGES : Contains(error_str, m)

(***************************************************************************)
(* The messages classified: up to MaxParts phrases, joined by a blank.     *)
(***************************************************************************)
Phrases ==
    {"Error code: 429", "HTTP 500", "502", "503 Service Unavailable", "504",
     "404", "Rate limit exceeded", "Too Many Requests", "Request Timeout",
     "Connection error", "overloaded", "capacity", "No endpoints found",
     "data policy", "Model not available", "model is currently overloaded",
     "model unavailable", "Invalid API key", "HTTP 401", "unexpected keyword"}

RECURSIVE MessagesOf(_)
MessagesOf(n) ==
    IF n = 0 THEN {""}
    ELSE LET shorter == MessagesOf(n - 1) IN
         shorter \cup {IF m = "" THEN p ELSE m \o " " \o p : m \in shorter, p \in Phrases}

Messages == MessagesOf(MaxParts) \ {""}

NoVerdict == [done |-> FALSE, retryable |-> FALSE, fallback |-> FALSE]

ClsInit == errMsg \in Messages /\ verdict = NoVerdict

ClsIdle == errMsg = "" /\ verdict = NoVerdict

\* The two predicates applied to the exception, as call() does at lines 223-224.
Classify ==
    /\ ~verdict.done
    /\ errMsg # ""
    /\ verdict' = [done |-> TRUE,
                   retryable |-> _is_retryable_error(errMsg),
                   fallback |-> _should_fallback(errMsg)]
    /\ UNCHANGED <<errMsg, limVars, taskVars, callVars, appVars>>

(***************************************************************************)
(* RateLimiter.                                                            *)
(***************************************************************************)
Tasks == {"t1", "t2", "t3"}
NoTask == "none"

\* The rates (tenths of a request per second) a profile or set_rate may carry.
RateInputs == {0, 5, 10, 20}

\* RateLimiter.__init__: the bucket starts full, tokens = requests_per_second.
FullBucket(requests_per_second) == requests_per_second * TicksPerSec

\* A refill that forgets the cap at the rate (mutant of Refill).
RefillNoCap(tok, elapsed, r) == tok + elapsed * r

\* acquire, lines 98-101: min(rate, tokens + elapsed * rate).
Refill(tok, elapsed, r) == Min(r * TicksPerSec, tok + elapsed * r)

\* acquire, line 104: "if self._tokens < 1" is the waiting branch.
HasToken(tok) == tok >= TokenUnit

\* acquire, line 106: wait_time = (1 - tokens) / rate, in whole ticks:
\* asyncio.sleep returns no earlier than asked.
WaitTicks(tok, r) == CeilDiv(TokenUnit - tok, r)

\* A set_rate without the 0.1 floor (mutant of ClampRate).
ClampRateNoFloor(requests_per_second) == requests_per_second

\* set_rate, line 83: max(0.1, requests_per_second).
ClampRate(requests_per_second) == Max(1, requests_per_second)

\* A lock that never makes anyone wait (mutant of LockAvailable).
LockAlwaysAvailable(holder, waiters) == TRUE

\* asyncio.Lock.acquire returns at once when the lock is free and nobody queues.
LockAvailable(holder, waiters) == holder = NoTask /\ waiters = <<>>

\* acquire, line 109: after the sleep, self._tokens = 0.
TokensAfterWait(tok) == 0

\* acquire, line 111: self._tokens -= 1.
Consume(tok) == tok - TokenUnit

NoHist == [t0 |-> 0, tokens0 |-> 0, entered |-> 0, waited |-> FALSE,
           queued |-> FALSE, idle |-> 0, sets |-> 0]

NoOp == [op |-> "none", arg |-> 0]

TasksIdle ==
    /\ lockHolder = NoTask
    /\ lockWaiters = <<>>
    /\ lpc = [p \in Tasks |-> "idle"]
    /\ wakeAt = [p \in Tasks |-> 0]
    /\ acqDone = [p \in Tasks |-> 0]
    /\ lastOp = NoOp
    /\ hist = NoHist

\* A limiter as its constructor leaves it, at clock reading t.
LimiterNew(requests_per_second, t) ==
    /\ rate = requests_per_second
    /\ tokens = FullBucket(requests_per_second)
    /\ last_update = t
    /\ now = t

\* Releasing the lock hands it to the first task queued on it, if any.
Release(p) ==
    IF lockWaiters = <<>>
    THEN /\ lockHolder' = NoTask
         /\ lockWaiters' = lockWaiters
    ELSE /\ lockHolder' = Head(lockWaiters)
         /\ lockWaiters' = Tail(lockWaiters)

\* The body of acquire under the lock, up to its await or its end
\* (lines 94-111), run by task p.
Critical(p) ==
    LET refilled == Refill(tokens, now - last_update, rate) IN
    /\ last_update' = now
    /\ hist' = [hist EXCEPT !.entered = @ + 1,
                            !.waited = @ \/ ~HasToken(refilled)]
    /\ lastOp' = [op |-> "acquire", arg |-> 0]
    /\ IF HasToken(refilled)
       THEN /\ tokens' = Consume(refilled)
            /\ Release(p)
            /\ lpc' = [q \in Tasks |->
                        IF q = p THEN "idle"
                        ELSE IF lockWaiters # <<>> /\ q = Head(lockWaiters)
                             THEN "granted" ELSE lpc[q]]
            /\ acqDone' = [acqDone EXCEPT ![p] = @ + 1]
            /\ wakeAt' = wakeAt
       ELSE /\ tokens' = refilled
            /\ lockHolder' = p
            /\ lockWaiters' = lockWaiters
            /\ lpc' = [lpc EXCEPT ![p] = "sleeping"]
            /\ wakeAt' = [wakeAt EXCEPT ![p] = now + WaitTicks(refilled, rate)]
            /\ acqDone' = acqDone
    /\ UNCHANGED <<rate, now>>

\* A task calls acquire(): it takes the lock and runs the body, or queues.
LEnter(p, maxAcq) ==
    /\ lpc[p] = "idle"
    /\ acqDone[p] < maxAcq
    /\ IF LockAvailable(lockHolder, lockWaiters)
       THEN Critical(p)
       ELSE /\ lockWaiters' = Append(lockWaiters, p)
            /\ lpc' = [lpc EXCEPT ![p] = "queued"]
            /\ lastOp' = [op |-> "queue", arg |-> 0]
            /\ hist' = [hist EXCEPT !.queued = TRUE]
            /\ UNCHANGED <<limVars, lockHolder, wakeAt, acqDone>>
    /\ UNCHANGED <<clsVars, appVars, callVars>>

\* A queued task is handed the lock and runs the body.
LGranted(p) ==
    /\ lpc[p] = "granted"
    /\ lockHolder = p
    /\ Critical(p)
    /\ UNCHANGED <<clsVars, appVars, callVars>>

\* The sleep of the waiting branch is over: tokens = 0, the lock is released.
LWake(p) ==
    /\ lpc[p] = "sleeping"
    /\ now >= wakeAt[p]
    /\ tokens' = TokensAfterWait(tokens)
    /\ Release(p)
    /\ lpc' = [q \in Tasks |->
                IF q = p THEN "idle"
                ELSE IF lockWaiters # <<>> /\ q = Head(lockWaiters)
                     THEN "granted" ELSE lpc[q]]
    /\ acqDone' = [acqDone EXCEPT ![p] = @ + 1]
    /\ lastOp' = [op |-> "wake", arg |-> 0]
    /\ UNCHANGED <<rate, last_update, now, wakeAt, hist>>
    /\ UNCHANGED <<clsVars, appVars, callVars>>

SleeperWaits == \E p \in Tasks : lpc[p] = "sleeping" /\ wakeAt[p] > now

\* The clock advances while a sleep is running.
TickSleep ==
    /\ SleeperWaits
    /\ now' = now + 1
    /\ UNCHANGED <<rate, tokens, last_update, taskVars, clsVars, appVars, callVars>>

\* The clock advances while no sleep needs it (idle time between calls).
TickIdle ==
    /\ ~SleeperWaits
    /\ hist.idle < MaxTime
    /\ now' = now + 1
    /\ hist' = [hist EXCEPT !.idle = @ + 1]
    /\ UNCHANGED <<rate, tokens, last_update, lockHolder, lockWaiters, lpc,
                   wakeAt, acqDone, lastOp, clsVars, appVars, callVars>>

\* RateLimiter.set_rate(requests_per_second).
set_rate(requests_per_second) ==
    /\ hist.sets < MaxSetRate
    /\ rate' = ClampRate(requests_per_second)
    /\ lastOp' = [op |-> "set_rate", arg |-> requests_per_second]
    /\ hist' = [hist EXCEPT !.sets = @ + 1]
    /\ UNCHANGED <<tokens, last_update, now, lockHolder, lockWaiters, lpc,
                   wakeAt, acqDone, clsVars, appVars, callVars>>

(***************************************************************************)
(* Idle values of the call's variables, for the runs that make no call.    *)
(***************************************************************************)
NoConfig == [rate_limit |-> 0, retry_enabled |-> FALSE, max_retries |-> 0,
             retry_base_delay |-> 0, fallback_enabled |-> FALSE]

NoCall == [script |-> <<>>, fallback |-> "none", override |-> NoConfig,
           has_override |-> FALSE]

NoOutcome == [kind |-> "none", value |-> "", cause |-> ""]

CallIdle ==
    /\ config = NoConfig
    /\ callIn = NoCall
    /\ pc = "idle"
    /\ attempt = 0
    /\ fnCalls = 0
    /\ fbCalls = 0
    /\ trace = <<>>
    /\ last_exception = ""
    /\ outcome = NoOutcome
    /\ fnKwargs = {}

(***************************************************************************)
(* The resilience keys, and the idle values of the registry's variables.   *)
(***************************************************************************)
Providers == {"openrouter", "openai"}
Roles == {"root", "worker", "audit"}

\* llm_provider.py, line 70 and its like: resilience_key or "<provider>".
DefaultKey(provider) == provider

\* provider_factory.py, line 284: f"{provider}_worker".
WorkerKey(provider) == provider \o "_worker"

\* provider_factory.py, line 376: f"{provider}_audit".
AuditKey(provider) == provider \o "_audit"

Keys ==
    {DefaultKey(p) : p \in Providers}
        \cup {WorkerKey(p) : p \in Providers}
        \cup {AuditKey(p) : p \in Providers}

NoLimiter == [made |-> FALSE, rate |-> 0, tokens |-> 0, last_update |-> 0]
NoFactory == [active_provider |-> "", worker_provider |-> "", audit_provider |-> ""]
NoClient == [provider |-> "", key |-> ""]
NoRole == [role |-> "none", key |-> ""]

RolesIdle ==
    /\ factory = NoFactory
    /\ _resilience_configs = [k \in Keys |-> NoConfig]
    /\ _rate_limiters = [k \in Keys |-> NoLimiter]
    /\ clients = [r \in Roles |-> NoClient]
    /\ lastRole = NoRole
    /\ roleCalls = 0


(***************************************************************************)
(* The gateway clients and the idle values of their variables.             *)
(***************************************************************************)
\* The model ids of the upstream listing.
Models == {"model-a", "model-b", "model-c"}

\* Two OpenRouterLLM clients, of two cycles, with different primary models.
GatewayClients == {"c1", "c2"}

\* self._model_name of each client.
_model_name == [c \in GatewayClients |-> IF c = "c1" THEN "model-a" ELSE "model-b"]

NoFallback == [pc |-> "idle", json |-> FALSE, model |-> "", requests |-> <<>>,
               error |-> ""]

\* The class attribute _free_models_cache starts empty.
GwIdle ==
    /\ _free_models_cache = {}
    /\ fallbacks = [c \in GatewayClients |-> NoFallback]

(***************************************************************************)
(* The events _emit_progress hands to progress_callback, kept as the set   *)
(* of stages whose last event is 'active' and the number of 'Final'        *)
(* 'completed' events.                                                     *)
(***************************************************************************)
NoProgress == [open |-> {}, finals |-> 0]

\* _emit_progress(stage, status).
Emit(p, stage, status) ==
    [open |-> IF status = "active" THEN p.open \cup {stage} ELSE p.open \ {stage},
     finals |-> IF stage = "Final" /\ status = "completed"
                THEN p.finals + 1 ELSE p.finals]

RECURSIVE EmitAll(_, _)
EmitAll(p, events) ==
    IF events = <<>> THEN p
    ELSE EmitAll(Emit(p, events[1][1], events[1][2]), Tail(events))

\* The events between the return of synthesize_output and the return of the
\* cycle: line 716 on the retries-exhausted path of execute_with_critic, then
\* line 780 of run_full_cycle.
ReturnEvents(entered_by, site) ==
    (IF site = "final" /\ entered_by \in {"run_full_cycle", "execute_with_critic"}
     THEN <<<<"Final", "completed">>>> ELSE <<>>)
    \o (IF entered_by = "run_full_cycle"
        THEN <<<<"Final", "completed">>>> ELSE <<>>)

(***************************************************************************)
(* Idle values of the engine's variables.                                  *)
(***************************************************************************)
NoPlan == [name |-> "none", rev |-> 0, steps |-> 0, complexity |-> "medium"]
NoAnalysis == [constraints |-> FALSE]
NoVerification == [is_valid |-> TRUE]
NoCandidate == [attempt |-> 0, plan |-> NoPlan, text |-> ""]
NoEvaluation == [score |-> 0, status |-> "none", reason |-> "", feedback |-> ""]
NoOutput == [kind |-> "none", of |-> NoCandidate, pass |-> 0, text |-> ""]
NoNote == -1
NoCalls == [phase |-> "none", calls |-> 0, fell_back |-> FALSE]
NoResult ==
    [kind |-> "none", error |-> "", plan |-> NoPlan, final_output |-> NoOutput,
     note |-> NoNote, critic_score |-> 0, attempts |-> 0,
     failed_validation |-> FALSE]

EngIdle ==
    /\ reasoning_modules = <<>>
    /\ task = ""
    /\ entry = "none"
    /\ epc = "idle"
    /\ max_retries = 0
    /\ analysis = NoAnalysis
    /\ selected = <<>>
    /\ adapted = <<>>
    /\ structured_plan = NoPlan
    /\ verification = NoVerification
    /\ current_plan = NoPlan
    /\ new_plan = NoPlan
    /\ loop_attempt = 0
    /\ current_response = NoCandidate
    /\ feedback = ""
    /\ evaluation = NoEvaluation
    /\ return_site = "none"
    /\ current_output = NoOutput
    /\ iteration = 0
    /\ audit_elapsed = 0
    /\ audit_exit = "none"
    /\ plan_log = <<>>
    /\ GwIdle
    /\ progress = NoProgress
    /\ result = NoResult
    /\ phaseLog = <<>>
    /\ lastCalls = NoCalls

AppIdle == RolesIdle /\ EngIdle

(***************************************************************************)
(* SpecClassify: one exception text, classified.                           *)
(***************************************************************************)
InitClassify ==
    /\ AppIdle
    /\ ClsInit
    /\ LimiterNew(10, 0)
    /\ TasksIdle
    /\ CallIdle

NextClassify == Classify

SpecClassify == InitClassify /\ [][NextClassify]_vars

(***************************************************************************)
(* SpecSeq: one task calls acquire() again and again, back to back, on a   *)
(* new limiter.                                                            *)
(***************************************************************************)
SeqRates == RateInputs \ {0}
SeqClocks == 0..2

InitSeq ==
    /\ AppIdle
    /\ ClsIdle
    /\ CallIdle
    /\ \E r \in SeqRates, t \in SeqClocks :
          /\ LimiterNew(r, t)
          /\ hist = [NoHist EXCEPT !.t0 = t, !.tokens0 = FullBucket(r)]
    /\ lockHolder = NoTask
    /\ lockWaiters = <<>>
    /\ lpc = [p \in Tasks |-> "idle"]
    /\ wakeAt = [p \in Tasks |-> 0]
    /\ acqDone = [p \in Tasks |-> 0]
    /\ lastOp = NoOp

NextSeq ==
    \/ LEnter("t1", MaxSeq)
    \/ LWake("t1")
    \/ TickSleep

SpecSeq == InitSeq /\ [][NextSeq]_vars

(***************************************************************************)
(* SpecLimiter: the tasks of concurrent cycles call acquire() once each on *)
(* the limiter they share, while time passes and set_rate is called.       *)
(***************************************************************************)
LimiterRates == {10, 20}

InitLimiter ==
    /\ AppIdle
    /\ ClsIdle
    /\ CallIdle
    /\ \E r \in LimiterRates :
          /\ LimiterNew(r, 0)
          /\ hist = [NoHist EXCEPT !.tokens0 = FullBucket(r)]
    /\ lockHolder = NoTask
    /\ lockWaiters = <<>>
    /\ lpc = [p \in Tasks |-> "idle"]
    /\ wakeAt = [p \in Tasks |-> 0]
    /\ acqDone = [p \in Tasks |-> 0]
    /\ lastOp = NoOp

NextLimiter ==
    \/ \E p \in Tasks : LEnter(p, 1)
    \/ \E p \in Tasks : LGranted(p)
    \/ \E p \in Tasks : LWake(p)
    \/ TickSleep
    \/ TickIdle
    \/ \E r \in RateInputs : set_rate(r)

SpecLimiter == InitLimiter /\ [][NextLimiter]_vars

\* The event loop runs every task that is ready and the clock does not stop.
FairSpecLimiter ==
    /\ SpecLimiter
    /\ WF_vars(TickSleep)
    /\ \A p \in Tasks : WF_vars(LGranted(p)) /\ WF_vars(LWake(p))

(***************************************************************************)
(* ResilientCaller.call.                                                   *)
(***************************************************************************)
\* The exceptions fn is scripted to raise.
CallErrors ==
    {"rate limit error", "Error code: 429",
     "Error code: 404 - No endpoints found", "Invalid API key"}

FallbackError == "Aucun modele de fallback disponible"

\* The two classifications of every scripted exception (lines 223-224).
ErrorClass ==
    [e \in CallErrors |->
        [is_retryable |-> _is_retryable_error(e),
         should_fallback |-> _should_fallback(e)]]

Configs ==
    [rate_limit : {10, 50}, retry_enabled : BOOLEAN, max_retries : 0..MaxRetries,
     retry_base_delay : {1, 2}, fallback_enabled : BOOLEAN]

\* The profiles a caller may pass as resilience_override.
Overrides ==
    {[rate_limit |-> 50, retry_enabled |-> TRUE, max_retries |-> 1,
      retry_base_delay |-> 1, fallback_enabled |-> FALSE]}

RECURSIVE ScriptsOf(_)
ScriptsOf(n) ==
    IF n = 0 THEN {<<>>}
    ELSE LET shorter == ScriptsOf(n - 1) IN
         shorter \cup {Append(sc, e) : sc \in shorter, e \in CallErrors}

\* fn raises script[i] at its i-th invocation and returns "ok" after the script.
Scripts == ScriptsOf(MaxFail)

CallInputs ==
    {[script |-> sc, fallback |-> fb, override |-> NoConfig, has_override |-> FALSE] :
        sc \in Scripts, fb \in {"none", "ok", "fail"}}
    \cup
    {[script |-> sc, fallback |-> fb, override |-> ov, has_override |-> TRUE] :
        sc \in Scripts, fb \in {"none", "ok", "fail"}, ov \in Overrides}

\* A budget that forgets the first attempt (mutant of Attempts).
AttemptsOffByOne(cfg) == IF ~cfg.retry_enabled THEN 1 ELSE Max(1, cfg.max_retries)

\* A budget that retries although retry is disabled (mutant of Attempts).
AttemptsAlwaysRetry(cfg) == cfg.max_retries + 1

\* call, line 215.
Attempts(cfg) == IF ~cfg.retry_enabled THEN 1 ELSE cfg.max_retries + 1

\* call, lines 215, 243 and 256 read self._config: the profile in force is the
\* caller's own, whatever keyword arguments the call was given.
ProfileInForce(cfg, ci) == cfg

\* call, line 219: func(*args, **kwargs).  "fallback_func" is a parameter of
\* call; every other keyword argument is in kwargs and goes to func.
KwargsForwarded(ci) == IF ci.has_override THEN {"resilience_override"} ELSE {}

\* A backoff that sleeps the base delay before every retry (mutant of
\* BackoffDelay).
BackoffDelayConstant(cfg, k) == cfg.retry_base_delay

\* call, line 243: retry_base_delay * 2 ** attempt.
BackoffDelay(cfg, k) == cfg.retry_base_delay * Pow2(k)

\* A fallback taken although the profile disables it (mutant of
\* FallbackWanted).
FallbackWantedIgnoresSwitch(cfg, ci, e) ==
    ci.fallback # "none" /\ ErrorClass[e].should_fallback

\* call, line 256.
FallbackWanted(cfg, ci, e) ==
    cfg.fallback_enabled /\ ci.fallback # "none" /\ ErrorClass[e].should_fallback

\* A fallback failure that surfaces the fallback's own error (mutant of
\* FallbackFailure).
FallbackFailureOwnError(primary, fallback_error) ==
    [kind |-> "raised", value |-> fallback_error, cause |-> ""]

\* call, line 264: raise last_exception from fallback_error.
FallbackFailure(primary, fallback_error) ==
    [kind |-> "raised", value |-> primary, cause |-> fallback_error]

Event(e, a) == [ev |-> e, arg |-> a]

\* One uncontended acquire() of the call's limiter, its sleep included.
AcquireNow ==
    LET refilled == Refill(tokens, now - last_update, rate) IN
    /\ last_update' = now
    /\ IF HasToken(refilled)
       THEN tokens' = Consume(refilled) /\ now' = now
       ELSE tokens' = TokensAfterWait(refilled)
            /\ now' = now + WaitTicks(refilled, rate)
    /\ rate' = rate
    /\ trace' = Append(trace, Event("acquire", 0))

\* call() is entered with its arguments.
StartCall ==
    /\ pc = "idle"
    /\ \E ci \in CallInputs : callIn' = ci
    /\ pc' = "acquire_first"
    /\ UNCHANGED <<config, attempt, fnCalls, fbCalls, trace, last_exception,
                   outcome, fnKwargs, clsVars, appVars, limVars, taskVars>>

\* Lines 212 and 250: the acquire before the first attempt and before a retry.
CallAcquire ==
    /\ pc \in {"acquire_first", "acquire_retry"}
    /\ AcquireNow
    /\ attempt' = IF pc = "acquire_retry" THEN attempt + 1 ELSE 0
    /\ pc' = "invoke"
    /\ UNCHANGED <<config, callIn, fnCalls, fbCalls, last_exception, outcome,
                   fnKwargs, clsVars, appVars, taskVars>>

\* A handler that goes for the fallback without the fallback's own acquire
\* (mutant of AfterFailure).
AfterFailureNoFallbackAcquire(cfg, ci, e, k) ==
    LET is_retryable == ErrorClass[e].is_retryable
        should_fallback == ErrorClass[e].should_fallback
    IN IF ~is_retryable /\ ~should_fallback
       THEN [pc |-> "raised", outcome |-> [kind |-> "raised", value |-> e, cause |-> ""]]
       ELSE IF is_retryable /\ k < Attempts(cfg) - 1
       THEN [pc |-> "backoff", outcome |-> NoOutcome]
       ELSE IF FallbackWanted(cfg, ci, e)
       THEN [pc |-> "invoke_fallback", outcome |-> NoOutcome]
       ELSE [pc |-> "raised", outcome |-> [kind |-> "raised", value |-> e, cause |-> ""]]

\* What call does with exception e of attempt k, up to its next await
\* (lines 221-269): raise, back off, or go for the fallback.
AfterFailure(cfg, ci, e, k) ==
    LET is_retryable == ErrorClass[e].is_retryable
        should_fallback == ErrorClass[e].should_fallback
    IN IF ~is_retryable /\ ~should_fallback
       THEN [pc |-> "raised", outcome |-> [kind |-> "raised", value |-> e, cause |-> ""]]
       ELSE IF is_retryable /\ k < Attempts(cfg) - 1
       THEN [pc |-> "backoff", outcome |-> NoOutcome]
       ELSE IF FallbackWanted(cfg, ci, e)
       THEN [pc |-> "acquire_fallback", outcome |-> NoOutcome]
       ELSE [pc |-> "raised", outcome |-> [kind |-> "raised", value |-> e, cause |-> ""]]

\* Lines 218-269: func is invoked; its result is returned, or its exception
\* is handled.
InvokeFn ==
    /\ pc = "invoke"
    /\ fnCalls' = fnCalls + 1
    /\ fnKwargs' = KwargsForwarded(callIn)
    /\ trace' = Append(trace, Event("fn", 0))
    /\ LET cfg == ProfileInForce(config, callIn) IN
       IF fnCalls + 1 > Len(callIn.script)
       THEN /\ pc' = "returned"
            /\ outcome' = [kind |-> "returned", value |-> "ok", cause |-> ""]
            /\ last_exception' = last_exception
       ELSE LET e == callIn.script[fnCalls + 1]
                next == AfterFailure(cfg, callIn, e, attempt)
            IN /\ last_exception' = e
               /\ pc' = next.pc
               /\ outcome' = next.outcome
    /\ UNCHANGED <<config, callIn, attempt, fbCalls, clsVars, appVars, limVars, taskVars>>

\* Line 248: the backoff sleep.
Backoff ==
    /\ pc = "backoff"
    /\ LET delay == BackoffDelay(ProfileInForce(config, callIn), attempt) IN
       /\ now' = now + delay
       /\ trace' = Append(trace, Event("sleep", delay))
    /\ pc' = "acquire_retry"
    /\ UNCHANGED <<config, callIn, attempt, fnCalls, fbCalls, last_exception,
                   outcome, fnKwargs, rate, tokens, last_update, clsVars, appVars, taskVars>>

\* Line 259: the acquire before the fallback.
FallbackAcquire ==
    /\ pc = "acquire_fallback"
    /\ AcquireNow
    /\ pc' = "invoke_fallback"
    /\ UNCHANGED <<config, callIn, attempt, fnCalls, fbCalls, last_exception,
                   outcome, fnKwargs, clsVars, appVars, taskVars>>

\* Lines 260-264: fallback_func is invoked.
InvokeFallback ==
    /\ pc = "invoke_fallback"
    /\ fbCalls' = fbCalls + 1
    /\ trace' = Append(trace, Event("fallback", 0))
    /\ IF callIn.fallback = "ok"
       THEN /\ pc' = "returned"
            /\ outcome' = [kind |-> "returned", value |-> "fallback", cause |-> ""]
       ELSE /\ pc' = "raised"
            /\ outcome' = FallbackFailure(last_exception, FallbackError)
    /\ UNCHANGED <<config, callIn, attempt, fnCalls, last_exception, fnKwargs,
                   clsVars, appVars, limVars, taskVars>>

(***************************************************************************)
(* Spec: one call of a ResilientCaller built on its own limiter.           *)
(***************************************************************************)
Init ==
    /\ AppIdle
    /\ ClsIdle
    /\ TasksIdle
    /\ \E cfg \in Configs :
          /\ config = cfg
          /\ LimiterNew(cfg.rate_limit, 0)
    /\ callIn = NoCall
    /\ pc = "idle"
    /\ attempt = 0
    /\ fnCalls = 0
    /\ fbCalls = 0
    /\ trace = <<>>
    /\ last_exception = ""
    /\ outcome = NoOutcome
    /\ fnKwargs = {}

Next ==
    \/ StartCall
    \/ CallAcquire
    \/ InvokeFn
    \/ Backoff
    \/ FallbackAcquire
    \/ InvokeFallback

Spec == Init /\ [][Next]_vars

(***************************************************************************)
(* SpecRoles: the requests of routers/reasoning.py build the root, worker  *)
(* and audit clients; each client call takes a token from the limiter the  *)
(* registry of resilience.py keeps under the client's resilience key.      *)
(***************************************************************************)
\* resilience.rate_limit of the configuration file, in tenths of a request
\* per second.
RoleRates == {10, 20}

FactoryConfigs ==
    [active_provider : Providers, worker_provider : Providers,
     audit_provider : Providers]

\* request.parameters: its "provider" ("" when absent) and whether it
\* carries a "model".
Requests == [provider : Providers \cup {""}, model : BOOLEAN]

\* ProviderFactory.create_llm: the provider asked for, or the active one; no
\* resilience_key is passed, the client keeps its provider's default key.
create_llm(f, provider) ==
    LET provider_name == IF provider # "" THEN provider ELSE f.active_provider
    IN [provider |-> provider_name, key |-> DefaultKey(provider_name)]

\* ProviderFactory.create_worker_llm.
create_worker_llm(f) ==
    [provider |-> f.worker_provider, key |-> WorkerKey(f.worker_provider)]

\* ProviderFactory.create_audit_llm.
create_audit_llm(f) ==
    [provider |-> f.audit_provider, key |-> AuditKey(f.audit_provider)]

\* _run_task_logic, lines 184-211: the three clients of a request.
ClientsOf(f, req) ==
    IF req.provider # "" \/ req.model
    THEN [r \in Roles |-> create_llm(f, req.provider)]
    ELSE [r \in Roles |->
            CASE r = "root" -> create_llm(f, "")
              [] r = "worker" -> create_worker_llm(f)
              [] OTHER -> create_audit_llm(f)]

\* ResilienceConfig(): the defaults of the dataclass.
ResilienceConfigDefault ==
    [rate_limit |-> 50, retry_enabled |-> FALSE, max_retries |-> 3,
     retry_base_delay |-> 1, fallback_enabled |-> FALSE]

\* _apply_resilience_config: the profile built from the configuration file,
\* whose resilience section gives the rate_limit.
FileProfile(r) == [ResilienceConfigDefault EXCEPT !.rate_limit = r]

\* resilience.get_resilience_config: the registry after the lookup; a key
\* without a profile gets the default one.
get_resilience_config(configs, key) ==
    IF configs[key] = NoConfig
    THEN [configs EXCEPT ![key] = ResilienceConfigDefault]
    ELSE configs

\* resilience.get_rate_limiter: the limiter of a key is created at its first
\* use, by RateLimiter(config.rate_limit) on the key's profile.
get_rate_limiter(limiters, configs, key, t) ==
    IF limiters[key].made THEN limiters
    ELSE LET profile == get_resilience_config(configs, key)[key] IN
         [limiters EXCEPT ![key] =
            [made |-> TRUE, rate |-> profile.rate_limit,
             tokens |-> FullBucket(profile.rate_limit), last_update |-> t]]

\* ProviderFactory._apply_resilience_config gives every key, worker and audit
\* variants included, the profile of the configuration file.
InitRoles ==
    /\ ClsIdle
    /\ TasksIdle
    /\ CallIdle
    /\ LimiterNew(10, 0)
    /\ EngIdle
    /\ factory \in FactoryConfigs
    /\ \E r \in RoleRates : _resilience_configs = [k \in Keys |-> FileProfile(r)]
    /\ _rate_limiters = [k \in Keys |-> NoLimiter]
    /\ clients = [r \in Roles |-> NoClient]
    /\ lastRole = NoRole
    /\ roleCalls = 0

\* A request arrives: _run_task_logic builds its three clients.
RunTaskLogic(req) ==
    /\ clients' = ClientsOf(factory, req)
    /\ clients' # clients
    /\ UNCHANGED <<factory, _resilience_configs, _rate_limiters, lastRole,
                   roleCalls, clsVars, limVars, taskVars, callVars, engVars>>

\* The client of a role makes a call: get_resilient_caller(key) fetches the
\* key's limiter and ResilientCaller.call acquires a token from it (line 212),
\* sleeping when the bucket lacks one.
ClientCall(role) ==
    /\ clients[role] # NoClient
    /\ roleCalls < MaxRoleCalls
    /\ LET key == clients[role].key
           limiters == get_rate_limiter(_rate_limiters, _resilience_configs,
                                        key, now)
           l == limiters[key]
           refilled == Refill(l.tokens, now - l.last_update, l.rate)
       IN /\ _rate_limiters' =
                [limiters EXCEPT ![key] =
                    [l EXCEPT !.tokens = IF HasToken(refilled)
                                         THEN Consume(refilled)
                                         ELSE TokensAfterWait(refilled),
                              !.last_update = now]]
          /\ now' = IF HasToken(refilled) THEN now
                    ELSE now + WaitTicks(refilled, l.rate)
          /\ lastRole' = [role |-> role, key |-> key]
    /\ roleCalls' = roleCalls + 1
    /\ UNCHANGED <<factory, _resilience_configs, clients, rate, tokens,
                   last_update, clsVars, taskVars, callVars, engVars>>

\* Time passes between two calls.
TickRoles ==
    /\ now < MaxTime
    /\ now' = now + 1
    /\ UNCHANGED <<rate, tokens, last_update, roleVars, clsVars, taskVars,
                   callVars, engVars>>

NextRoles ==
    \/ \E req \in Requests : RunTaskLogic(req)
    \/ \E role \in Roles : ClientCall(role)
    \/ TickRoles

SpecRoles == InitRoles /\ [][NextRoles]_vars

(***************************************************************************)
(* SpecRegistry: profiles are set with set_resilience_config while callers *)
(* made by get_resilient_caller start calls on the keys of one provider.   *)
(***************************************************************************)
RegistryKeys == {DefaultKey("openrouter"), WorkerKey("openrouter")}

\* rate_limit of the profiles that are set, in tenths of a request per
\* second; 0 stands for any value under 0.1.
RegistryRates == {0, 10, 20}

\* The profiles that are set differ in more than their rate_limit.
RegistryProfiles ==
    {[ResilienceConfigDefault EXCEPT !.rate_limit = r, !.retry_enabled = (r = 10)] :
        r \in RegistryRates}

\* A set_resilience_config that stores the profile and leaves the limiter
\* alone (mutant of set_resilience_config).
set_resilience_config_profile_only(limiters, configs, key, p) ==
    [configs |-> [configs EXCEPT ![key] = p], limiters |-> limiters]

\* resilience.set_resilience_config: the profile is stored and the key's
\* limiter, if it exists, gets set_rate(config.rate_limit).
set_resilience_config(limiters, configs, key, p) ==
    [configs |-> [configs EXCEPT ![key] = p],
     limiters |-> IF limiters[key].made
                  THEN [limiters EXCEPT ![key].rate = ClampRate(p.rate_limit)]
                  ELSE limiters]

InitRegistry ==
    /\ ClsIdle
    /\ TasksIdle
    /\ CallIdle
    /\ LimiterNew(10, 0)
    /\ EngIdle
    /\ RolesIdle

\* set_resilience_config(key, p): no await, one step of the event loop.
SetResilienceConfig(key, p) ==
    /\ LET r == set_resilience_config(_rate_limiters, _resilience_configs, key, p)
       IN /\ _resilience_configs' = r.configs
          /\ _rate_limiters' = r.limiters
    /\ lastOp' = [op |-> "set_resilience_config",
                  arg |-> [key |-> key, profile |-> p]]
    /\ UNCHANGED <<factory, clients, lastRole, roleCalls, limVars, lockHolder,
                   lockWaiters, lpc, wakeAt, acqDone, hist, clsVars, callVars,
                   engVars>>

\* A call starts on a key: get_resilient_caller(key) looks up the profile and
\* the limiter, creating what is missing, and ResilientCaller.call acquires
\* (line 212); acquire divides by the rate when the bucket lacks a token.
RegistryCall(key) ==
    /\ roleCalls < MaxRoleCalls
    /\ LET configs == get_resilience_config(_resilience_configs, key)
           limiters == get_rate_limiter(_rate_limiters, configs, key, now)
           l == limiters[key]
           refilled == Refill(l.tokens, now - l.last_update, l.rate)
           divides == ~HasToken(refilled)
       IN /\ _resilience_configs' = configs
          /\ config' = configs[key]
          /\ _rate_limiters' =
                [limiters EXCEPT ![key] =
                    [l EXCEPT !.tokens = IF HasToken(refilled)
                                         THEN Consume(refilled)
                                         ELSE IF l.rate = 0 THEN refilled
                                         ELSE TokensAfterWait(refilled),
                              !.last_update = now]]
          /\ now' = IF divides /\ l.rate # 0
                    THEN now + WaitTicks(refilled, l.rate)
                    ELSE now
          /\ lastOp' = [op |-> IF divides /\ l.rate = 0
                               THEN "ZeroDivisionError" ELSE "call",
                        arg |-> [key |-> key, profile |-> configs[key]]]
    /\ roleCalls' = roleCalls + 1
    /\ UNCHANGED <<factory, clients, lastRole, rate, tokens, last_update,
                   lockHolder, lockWaiters, lpc, wakeAt, acqDone, hist,
                   callIn, pc, attempt, fnCalls, fbCalls, trace,
                   last_exception, outcome, fnKwargs, clsVars, engVars>>

NextRegistry ==
    \/ \E key \in RegistryKeys, p \in RegistryProfiles : SetResilienceConfig(key, p)
    \/ \E key \in RegistryKeys : RegistryCall(key)
    \/ TickRoles

SpecRegistry == InitRegistry /\ [][NextRegistry]_vars

(***************************************************************************)
(* SpecGateway: the _fallback_call of two OpenRouterLLM clients, which     *)
(* ResilientCaller.call invokes as fallback_func, on the cache they share. *)
(***************************************************************************)
\* What list_models_detailed(free_only=True) may return: the free models of
\* the moment, none when the request fails (it does not raise).
Listings == SUBSET Models

\* What the upstream answers to a request.
GatewayReplies == {"ok", "400", "error"}

NoModelError == "Aucun modèle de fallback disponible"

\* A choice among all the cached models (mutant of available).
available_unfiltered(cache, own) == cache

\* _get_fallback_model, lines 239-241: the cached models but the client's own.
available(cache, own) == {m \in cache : m # own}

\* _get_fallback_model, lines 230-232: the cache as the client refreshes it.
Refreshed(listing, own) == {m \in listing : m # own}

Request(m, with_format) == [model |-> m, response_format |-> with_format]

gwRest == <<clsVars, limVars, taskVars, callVars, roleVars,
            reasoning_modules, task, entry, epc, max_retries, analysis,
            selected, adapted, structured_plan, verification, current_plan,
            new_plan, loop_attempt, current_response, feedback, evaluation,
            return_site, current_output, iteration, audit_elapsed, audit_exit,
            result, phaseLog, lastCalls, plan_log, progress>>

\* _get_fallback_model from line 239 and _fallback_call up to its ainvoke:
\* without a model the call raises, else random.choice picks one and the
\* prompt is sent to it.
ChooseAndSend(c, cache, json) ==
    LET choices == available(cache, _model_name[c]) IN
    IF choices = {}
    THEN fallbacks' = [fallbacks EXCEPT ![c] =
            [pc |-> "raised", json |-> json, model |-> "", requests |-> <<>>,
             error |-> NoModelError]]
    ELSE \E m \in choices :
            fallbacks' = [fallbacks EXCEPT ![c] =
               [pc |-> "requesting", json |-> json, model |-> m,
                requests |-> <<Request(m, json)>>, error |-> ""]]

\* _fallback_call is entered, for a call that asked for JSON or not: the
\* cache is read; when it is empty the listing is awaited.
FallbackCall(c, json) ==
    /\ fallbacks[c].pc \in {"idle", "returned", "raised"}
    /\ IF _free_models_cache = {}
       THEN fallbacks' = [fallbacks EXCEPT ![c] =
               [NoFallback EXCEPT !.pc = "listing", !.json = json]]
       ELSE ChooseAndSend(c, _free_models_cache, json)
    /\ UNCHANGED <<_free_models_cache, gwRest>>

\* The listing has answered: the cache is overwritten and the model chosen.
ListingReturns(c, listing) ==
    /\ fallbacks[c].pc = "listing"
    /\ _free_models_cache' = Refreshed(listing, _model_name[c])
    /\ ChooseAndSend(c, _free_models_cache', fallbacks[c].json)
    /\ UNCHANGED gwRest

\* fallback_client.ainvoke has answered (lines 181-192): a 400 to a request
\* with response_format is followed by one request without it, to the same
\* model; any other error leaves _fallback_call.
FallbackReply(c, reply) ==
    /\ fallbacks[c].pc \in {"requesting", "requesting_again"}
    /\ LET f == fallbacks[c]
           last == f.requests[Len(f.requests)]
       IN fallbacks' = [fallbacks EXCEPT ![c] =
             IF reply = "ok" THEN [f EXCEPT !.pc = "returned"]
             ELSE IF reply = "400" /\ f.pc = "requesting" /\ last.response_format
             THEN [f EXCEPT !.pc = "requesting_again",
                            !.requests = Append(@, Request(f.model, FALSE))]
             ELSE [f EXCEPT !.pc = "raised", !.error = reply]]
    /\ UNCHANGED <<_free_models_cache, gwRest>>

InitGateway ==
    /\ ClsIdle
    /\ TasksIdle
    /\ CallIdle
    /\ LimiterNew(10, 0)
    /\ AppIdle

NextGateway ==
    \/ \E c \in GatewayClients, json \in BOOLEAN : FallbackCall(c, json)
    \/ \E c \in GatewayClients, listing \in Listings : ListingReturns(c, listing)
    \/ \E c \in GatewayClients, reply \in GatewayReplies : FallbackReply(c, reply)

SpecGateway == InitGateway /\ [][NextGateway]_vars

(***************************************************************************)
(* AutoLogicEngine (autologic/core/engine.py) and CriticAgent              *)
(* (autologic/core/critic.py).  A score is stored in hundredths.           *)
(***************************************************************************)
\* execute_with_critic, line 614: max_retries: int = 3.
DefaultMaxRetries == 3

\* _call_and_parse_json, line 208: retries: int = 3.
ParseRetries == 3

\* synthesize_output, line 550: retries=2 for the audit call.
AuditParseRetries == 2

\* execute_with_critic, line 648: evaluation.score >= 0.8.
CriticThreshold == 80

\* _heuristic_check, line 75: len(response.strip()) < 50.
MinResponseLen == 50

\* synthesize_output, line 563: score >= 90.
AuditSufficientScore == 90

\* The ways one attempt of _call_and_parse_json fails: llm.call raises, or
\* json.loads rejects the response.
FailKinds == {"raise", "unparseable"}

\* The model's behaviour over the attempts of one _call_and_parse_json: the
\* first k responses fail, the others parse to value v.
ScriptsFor(values, retries) ==
    LET any == CHOOSE v \in values : TRUE IN
    {[i \in 1..retries |->
        IF i <= k THEN [kind |-> f, value |-> any]
        ELSE [kind |-> "json", value |-> v]] :
        k \in 0..retries, f \in FailKinds, v \in values}

\* _call_and_parse_json, lines 217-239, from attempt i on: the first response
\* that parses is returned, after the last attempt the last error is raised.
RECURSIVE CallAndParseFrom(_, _, _)
CallAndParseFrom(responses, retries, i) ==
    IF i >= retries
    THEN [ok |-> FALSE, calls |-> i, value |-> responses[1].value]
    ELSE IF responses[i + 1].kind \in FailKinds
    THEN CallAndParseFrom(responses, retries, i + 1)
    ELSE [ok |-> TRUE, calls |-> i + 1, value |-> responses[i + 1].value]

_call_and_parse_json(responses, retries) == CallAndParseFrom(responses, retries, 0)

\* ---- the catalog
\* select_modules, line 295.
fallback_ids == {"decomposer_le_probleme", "identifier_les_contraintes", "brainstorming"}

Module(id, description) == [id |-> id, description |-> description]

\* The catalog _load_modules reads from data/reasoning_modules_complete.json:
\* the default strategies, which the engine's tests select from it by these
\* ids, and others.
LoadedCatalog ==
    <<Module("decomposer_le_probleme", "Decomposer le probleme"),
      Module("pensee_critique", "Pensee critique"),
      Module("identifier_les_contraintes", "Identifier les contraintes"),
      Module("brainstorming", "Brainstorming")>>

\* _load_modules, lines 104-125: the catalog, or [] when the file is missing
\* or is not JSON.
Catalogs == {LoadedCatalog, <<>>}

\* [m for m in modules if m.id in ids]
ModulesWithId(modules, ids) ==
    LET Wanted(m) == m.id \in ids IN SelectSeq(modules, Wanted)

\* ---- ANALYZE
AnalysisValues == [constraints : BOOLEAN]

\* analyze_task, lines 251-258.
analyze_task(responses) ==
    LET r == _call_and_parse_json(responses, ParseRetries) IN
    [value |-> IF r.ok THEN r.value ELSE [constraints |-> FALSE],
     calls |-> r.calls, fell_back |-> ~r.ok]

\* ---- SELECT
\* The "selected_modules" lists the model may answer with.
SelectedIdSets ==
    {{}, {"brainstorming", "pensee_critique"}, {"module_inconnu"}}

\* select_modules, lines 277-299.
select_modules(modules, responses) ==
    LET r == _call_and_parse_json(responses, ParseRetries) IN
    [value |-> ModulesWithId(modules, IF r.ok THEN r.value ELSE fallback_ids),
     calls |-> r.calls, fell_back |-> ~r.ok]

\* ---- ADAPT
Item(id, wellformed) ==
    [id |-> id, adapted_description |-> "adapte: " \o id,
     specific_actions |-> <<"action pour " \o id>>, wellformed |-> wellformed]

\* The "adapted_modules" lists the model may answer with, given the selection:
\* one item per strategy, no item, an item for a strategy that was not
\* selected, or an item lacking one of its keys.
AdaptedItemLists(sel) ==
    IF sel = <<>> THEN {<<>>} ELSE
    {[i \in 1..Len(sel) |-> Item(sel[i].id, TRUE)],
     <<>>,
     <<Item("module_inconnu", TRUE)>>,
     <<Item(sel[1].id, FALSE)>>}

AdaptedModule(base, adapted_description, specific_actions) ==
    [base |-> base, adapted_description |-> adapted_description,
     specific_actions |-> specific_actions]

\* adapt_modules, lines 323-333: the loop over the items; item[...] raises
\* KeyError on an item that lacks the key.
RECURSIVE AdaptItems(_, _)
AdaptItems(items, sel) ==
    IF items = <<>> THEN [ok |-> TRUE, value |-> <<>>]
    ELSE LET item == Head(items)
             bases == ModulesWithId(sel, {item.id})
             rest == AdaptItems(Tail(items), sel)
         IN IF bases = <<>> THEN rest
            ELSE IF ~item.wellformed THEN [ok |-> FALSE, value |-> <<>>]
            ELSE IF ~rest.ok THEN rest
            ELSE [ok |-> TRUE,
                  value |-> <<AdaptedModule(bases[1], item.adapted_description,
                                            item.specific_actions)>> \o rest.value]

\* An adaptation fallback that keeps only the first strategy (mutant of
\* AdaptFallback).
AdaptFallbackFirstOnly(sel) ==
    <<AdaptedModule(sel[1], sel[1].description, <<>>)>>

\* adapt_modules, lines 344-351: the generic descriptions.
AdaptFallback(sel) ==
    [i \in 1..Len(sel) |-> AdaptedModule(sel[i], sel[i].description, <<>>)]

\* adapt_modules, lines 320-354.
adapt_modules(sel, responses) ==
    LET r == _call_and_parse_json(responses, ParseRetries)
        built == IF r.ok THEN AdaptItems(r.value, sel)
                 ELSE [ok |-> FALSE, value |-> <<>>]
    IN [value |-> IF built.ok THEN built.value ELSE AdaptFallback(sel),
        calls |-> r.calls, fell_back |-> ~built.ok]

\* ---- STRUCTURE, VERIFY, restructure
Plan(name, rev, steps, complexity) ==
    [name |-> name, rev |-> rev, steps |-> steps, complexity |-> complexity]

\* The number of steps of the "reasoning_plan" the model may answer with.
PlanSteps == {0, 2}

\* structure_reasoning, lines 375-391.
structure_reasoning(responses) ==
    LET r == _call_and_parse_json(responses, ParseRetries) IN
    [value |-> IF r.ok THEN Plan("initial", 0, r.value, "medium")
               ELSE Plan("empty", 0, 0, "unknown"),
     calls |-> r.calls]

\* What json.loads may give for the verifier's answer: an object with
\* "is_valid", or JSON that is no object, here the array [].
JsonArray == [array |-> <<>>]
VerificationValues == [is_valid : BOOLEAN] \cup {JsonArray}

\* Whether a parsed answer has the method get: a dict has, a list has not.
HasGet(value) == "array" \notin DOMAIN value

\* verify_plan, lines 404-411: the call-and-parse runs twice, the second
\* result is returned.
verify_plan(responses1, responses2) ==
    LET r1 == _call_and_parse_json(responses1, ParseRetries)
        r2 == _call_and_parse_json(responses2, ParseRetries)
    IN IF ~r1.ok THEN [value |-> [is_valid |-> TRUE], calls |-> r1.calls]
       ELSE [value |-> IF r2.ok THEN r2.value ELSE [is_valid |-> TRUE],
             calls |-> r1.calls + r2.calls]

\* restructure_plan, lines 431-439: the new plan, or the old one on failure.
restructure_plan(old_plan, k, responses) ==
    LET r == _call_and_parse_json(responses, ParseRetries) IN
    [value |-> IF r.ok THEN Plan("restructured", k, r.value, "medium")
               ELSE old_plan,
     calls |-> r.calls, fell_back |-> ~r.ok]

\* ---- CRITIQUE
\* Answers of the worker model: a short one, an answer of some length, and
\* one that uses an API that does not exist; and, for synthesize_output on its
\* own, one that asks for the material.
ShortText == "It is hard."
LongText == "La solution suit le raisonnement pas a pas et donne le resultat final."
FakeText == "Il suffit d'utiliser import google.physics.levitation pour annuler la gravité."

AskingText == "Je ne peux pas conclure: merci de fournir le document a analyser."

Candidates == {ShortText, LongText, FakeText}
RawOutputs == Candidates \cup {AskingText}

\* Further candidates the critic may be handed: a short one with a suspect
\* term, a suspect term in capitals, a text that is long only by its
\* whitespace, texts of 49 and of 50 characters, and the empty text.
CriticResponses ==
    Candidates \cup
    {"import antigravity",
     "Call World.SetGravity(0) on the physics engine to make every body float.",
     "   Le resultat est 42, obtenu par le calcul.             \n",
     "Le resultat final est 42, comme le plan le prevoi",
     "Le resultat final est 42, comme le plan le prevoit",
     ""}

\* The task of a cycle, and the tasks the critic may be handed: two that ask
\* for no fiction, two that do.
CycleTask == "Solve X"

CriticTasks ==
    {CycleTask, "Explain quantum physics", "Write a small Game with gravity",
     "Show me the Google Gravity easter egg"}

PlanFeedback == "Le plan oublie une étape"
OtherFeedback == "Le calcul final est faux"

\* What the judge model may answer with.
JudgeVerdicts ==
    {[score |-> 95, status |-> "VALID", feedback |-> OtherFeedback],
     [score |-> 80, status |-> "REJECT", feedback |-> PlanFeedback],
     [score |-> 40, status |-> "REJECT", feedback |-> PlanFeedback],
     [score |-> 40, status |-> "REJECT", feedback |-> OtherFeedback]}
JudgeReplies ==
    {[kind |-> f, value |-> CHOOSE v \in JudgeVerdicts : TRUE] : f \in FailKinds}
        \cup {[kind |-> "json", value |-> v] : v \in JudgeVerdicts}

CriticEvaluation(score, status, reason, fb) ==
    [score |-> score, status |-> status, reason |-> reason, feedback |-> fb]

\* _heuristic_check, lines 59-64 and 66.
fiction_terms == {"easter egg", "google gravity", "game"}
fake_terms == <<"google.physics", "import antigravity", "setgravity(">>

\* A gate without its length rule (mutant of _heuristic_check).
_heuristic_check_terms_only(task_text, response) ==
    LET hits == {i \in 1..Len(fake_terms) : Contains(Lower(response), fake_terms[i])}
    IN IF (\A w \in fiction_terms : ~Contains(Lower(task_text), w)) /\ hits # {}
       THEN CriticEvaluation(10, "REJECT", "Détection heuristique", "")
       ELSE NoEvaluation

\* CriticAgent._heuristic_check, lines 47-83: the suspect terms first, unless
\* the task asks for a fiction, then the length of the stripped response.
_heuristic_check(task_text, response) ==
    LET input_lower == Lower(task_text)
        response_lower == Lower(response)
        hits == {i \in 1..Len(fake_terms) : Contains(response_lower, fake_terms[i])}
    IN IF (\A w \in fiction_terms : ~Contains(input_lower, w)) /\ hits # {}
       THEN LET term == fake_terms[CHOOSE i \in hits : \A k \in hits : i <= k] IN
            CriticEvaluation(10, "REJECT",
                "Détection heuristique: Terme suspect '" \o term
                    \o "' suggère une hallucination d'API inexistante.",
                "Ne pas inventer de code ou d'imports.")
       ELSE IF Len(Strip(response)) < MinResponseLen
       THEN CriticEvaluation(20, "REJECT", "Réponse trop courte ou vide.",
                "La réponse est insuffisante. Développe le contenu pour répondre au plan.")
       ELSE NoEvaluation

\* _heuristic_check on every task and response of the model.
HeuristicResults ==
    [t \in CriticTasks, r \in CriticResponses |-> _heuristic_check(t, r)]

\* str(e) of what the judge call, or json.loads of its answer, raises.
ErrorText(kind) ==
    IF kind = "raise" THEN "Rate limit exceeded"
    ELSE "Expecting value: line 1 column 1 (char 0)"

\* A critic that accepts when its judge fails (mutant of evaluate).
evaluate_fail_open(task_text, response, judge) ==
    LET heuristic_result == HeuristicResults[task_text, response] IN
    IF heuristic_result # NoEvaluation
    THEN [value |-> heuristic_result, calls |-> 0]
    ELSE IF judge.kind \in FailKinds
    THEN [value |-> CriticEvaluation(100, "VALID", "Crash du critique: " \o ErrorText(judge.kind),
                        ""),
          calls |-> 1]
    ELSE [value |-> CriticEvaluation(judge.value.score, judge.value.status,
                        judge.value.feedback, judge.value.feedback),
          calls |-> 1]

\* CriticAgent.evaluate, lines 103-138.
evaluate(task_text, response, judge) ==
    LET heuristic_result == HeuristicResults[task_text, response] IN
    IF heuristic_result # NoEvaluation
    THEN [value |-> heuristic_result, calls |-> 0]
    ELSE IF judge.kind \in FailKinds
    THEN [value |-> CriticEvaluation(0, "ERROR", "Crash du critique: " \o ErrorText(judge.kind),
                        "Une erreur interne est survenue lors de la validation. Vérifier le format et réessayer."),
          calls |-> 1]
    ELSE [value |-> CriticEvaluation(judge.value.score, judge.value.status,
                        judge.value.feedback, judge.value.feedback),
          calls |-> 1]

\* execute_with_critic, line 680.
replan_keywords == {"plan", "étape", "manquante", "structure"}

Reasons ==
    {evaluate(t, c, j).value.reason :
        t \in CriticTasks, c \in CriticResponses, j \in JudgeReplies}

\* execute_with_critic, lines 678-681, for every reason the critic may give.
NeedsReplan ==
    [reason \in Reasons |->
        \E kw \in replan_keywords : Contains(Lower(reason), kw)]

\* A loop that wants more than the threshold (mutant of Validated).
ValidatedStrictly(ev) == ev.score > CriticThreshold

\* execute_with_critic, line 648.
Validated(ev) == ev.score >= CriticThreshold

\* A loop that replans on its last attempt too (mutant of MayRestructure).
MayRestructureAlways(k, retries) == TRUE

\* execute_with_critic, line 687: attempt < max_retries - 1.
MayRestructure(k, retries) == k < retries - 1

\* execute_with_critic, line 628: range(max_retries) has an attempt after k.
HasNextAttempt(k, retries) == k + 1 < retries

\* A loop that adopts whatever restructure_plan returns, an empty plan
\* included (mutant of PlanAfterRestructure).
PlanAfterRestructureAdoptAny(old_plan, returned) == returned

\* A loop that keeps the old plan (mutant of PlanAfterRestructure).
PlanAfterRestructureKeepOld(old_plan, returned) == old_plan

\* execute_with_critic, lines 694-695.
PlanAfterRestructure(old_plan, returned) ==
    IF returned.steps > 0 THEN returned ELSE old_plan

\* ---- SYNTHESIZE, AUDIT
\* What the synthesis model may answer: it raises, or a text on which the
\* confusion detector fires or not.
ClearSynthesis == "Reponse finale: le resultat est 42."
ConfusedSynthesis == "Je comprends que vous souhaitez une analyse. Veuillez préciser le texte."
SynthesisTexts == {ClearSynthesis, ConfusedSynthesis}
SynthesisReplies == {"raise"} \cup SynthesisTexts

\* _is_confused_output, lines 163-174.
confusion_markers ==
    {"je n'ai pas de contenu", "merci de fournir", "élément requis",
     "je comprends que vous souhaitez", "je ne peux pas", "veuillez préciser",
     "information manquante"}

_is_confused_output(output) ==
    LET output_lower == Lower(output) IN
    \E marker \in confusion_markers : Contains(output_lower, marker)

\* _is_confused_output on every text the synthesis model or the worker gives.
Confused ==
    [t \in SynthesisTexts \cup RawOutputs |-> _is_confused_output(t)]

\* The output held by synthesize_output: its text, the candidate it was made
\* from, and whether it is that candidate, its synthesis, or the refinement
\* of audit pass number pass.
Output(kind, candidate, pass, text) ==
    [kind |-> kind, of |-> candidate, pass |-> pass, text |-> text]

\* A synthesis that keeps whatever the model gives (mutant of
\* SynthesizedOutput).
SynthesizedOutputUnchecked(raw_output, reply) ==
    Output("synthesis", raw_output, 0, reply)

\* synthesize_output, lines 504-509: the synthesis, or raw_output when the
\* synthesis is confused.
SynthesizedOutput(raw_output, reply) ==
    IF Confused[reply]
    THEN Output("candidate", raw_output, 0, raw_output.text)
    ELSE Output("synthesis", raw_output, 0, reply)

\* synthesize_output, lines 589-598: the refinement of pass number pass, or
\* the version held before it when the refinement is confused.
RefinedOutput(previous, refined_output, pass) ==
    IF Confused[refined_output] THEN previous
    ELSE Output("refined", previous.of, pass, refined_output)

\* What the audit model may answer with.
AuditVerdicts ==
    {[structural_sufficiency_score |-> 95, is_sufficient |-> FALSE,
      required_changes_type |-> "MAJOR"],
     [structural_sufficiency_score |-> 50, is_sufficient |-> TRUE,
      required_changes_type |-> "MAJOR"],
     [structural_sufficiency_score |-> 50, is_sufficient |-> FALSE,
      required_changes_type |-> "MINOR"],
     [structural_sufficiency_score |-> 50, is_sufficient |-> FALSE,
      required_changes_type |-> "MAJOR"],
     [structural_sufficiency_score |-> 90, is_sufficient |-> FALSE,
      required_changes_type |-> "NONE"]}

\* run_full_cycle, line 734: the audit_max_retries the cycle is called with.
audit_max_retries == MaxAuditPasses

\* run_full_cycle, line 733: the audit_timeout the cycle is called with, in
\* seconds.
audit_timeout == 1

\* What a model call of the audit loop may take, in ticks.
CallTicks == 0..MaxCallTicks

\* _compute_dynamic_timeout, lines 141-145: the multipliers, in tenths, and
\* int(base_timeout * mult + extra_steps).
multipliers(complexity) ==
    CASE complexity = "low" -> 10
      [] complexity = "medium" -> 15
      [] complexity = "high" -> 25
      [] OTHER -> 15

_compute_dynamic_timeout(base_timeout, complexity, steps_count) ==
    LET mult == multipliers(Lower(complexity))
        extra_steps == (IF steps_count > 5 THEN steps_count - 5 ELSE 0) * 10
    IN (base_timeout * mult + extra_steps * 10) \div 10

\* The effective timeout of the audit, in ticks, for every complexity and
\* number of steps a plan of the model has (synthesize_output, lines 497-499).
Complexities == {"low", "medium", "High", "unknown"}

EffectiveTimeouts ==
    [complexity \in Complexities, steps_count \in PlanSteps |->
        _compute_dynamic_timeout(audit_timeout, complexity, steps_count)
            * TicksPerSec]

\* An audit loop that never looks at the clock (mutant of DeadlineExceeded).
DeadlineNeverExceeded(spent, effective_timeout) == FALSE

\* synthesize_output, lines 528-529: elapsed > effective_timeout.
DeadlineExceeded(spent, effective_timeout) == spent > effective_timeout

\* An audit loop that counts its passes before it looks at the clock (mutant
\* of ExitBeforeAudit).
ExitBeforeAuditCountFirst(spent, effective_timeout, passes, max_iterations) ==
    IF passes >= max_iterations THEN "max_iterations"
    ELSE IF DeadlineExceeded(spent, effective_timeout) THEN "deadline"
    ELSE "none"

\* synthesize_output, lines 526-539: the exits ahead of the audit call.
ExitBeforeAudit(spent, effective_timeout, passes, max_iterations) ==
    IF DeadlineExceeded(spent, effective_timeout) THEN "deadline"
    ELSE IF passes >= max_iterations THEN "max_iterations"
    ELSE "none"

\* synthesize_output, lines 553-572: the exits on the audit's verdict.
ExitAfterAudit(audit_data) ==
    IF audit_data.is_sufficient
          \/ audit_data.structural_sufficiency_score >= AuditSufficientScore
    THEN "sufficient"
    ELSE IF audit_data.required_changes_type \in {"MINOR", "NONE"}
    THEN "minor"
    ELSE "none"

\* ---- results
\* run_full_cycle, lines 746, 751 and 756.
ErrorResult(message) == [NoResult EXCEPT !.kind = "error", !.error = message]

\* An exception leaves run_full_cycle.
RaisedResult == [NoResult EXCEPT !.kind = "raised"]

\* execute_with_critic: the dictionary returned at lines 663-670 (site
\* "validated", with its "attempts") and at lines 718-725 (site "final", with
\* the score appended to the output and "failed_validation").
ResultAt(site, plan, output, ev, k) ==
    IF site = "validated"
    THEN [kind |-> "result", error |-> "", plan |-> plan, final_output |-> output,
          note |-> NoNote, critic_score |-> ev.score, attempts |-> k + 1,
          failed_validation |-> FALSE]
    ELSE [kind |-> "result", error |-> "", plan |-> plan, final_output |-> output,
          note |-> ev.score, critic_score |-> ev.score, attempts |-> 0,
          failed_validation |-> TRUE]

\* A cycle that structures the plan before it adapts the strategies (mutant
\* of PhaseAfter).
PhaseAfterAdaptLate(phase) ==
    CASE phase = "analyze" -> "select"
      [] phase = "select" -> "structure"
      [] phase = "structure" -> "adapt"
      [] phase = "adapt" -> "verify"
      [] phase = "verify" -> "execute"

\* run_full_cycle, lines 740-767: the order of its calls.
PhaseAfter(phase) ==
    CASE phase = "analyze" -> "select"
      [] phase = "select" -> "adapt"
      [] phase = "adapt" -> "structure"
      [] phase = "structure" -> "verify"
      [] phase = "verify" -> "execute"

Calls(phase, calls, fell_back) ==
    [phase |-> phase, calls |-> calls, fell_back |-> fell_back]

restVars == <<clsVars, limVars, taskVars, callVars, roleVars, plan_log, gwVars>>
loopVars == <<loop_attempt, current_response, feedback, evaluation, return_site,
              current_output, iteration, audit_elapsed, audit_exit>>

\* AutoLogicEngine.__init__: the catalog is loaded, or empty.
InitCycle ==
    /\ ClsIdle
    /\ TasksIdle
    /\ CallIdle
    /\ RolesIdle
    /\ LimiterNew(10, 0)
    /\ reasoning_modules \in Catalogs
    /\ task = ""
    /\ entry = "none"
    /\ epc = "idle"
    /\ max_retries = 0
    /\ analysis = NoAnalysis
    /\ selected = <<>>
    /\ adapted = <<>>
    /\ structured_plan = NoPlan
    /\ verification = NoVerification
    /\ current_plan = NoPlan
    /\ new_plan = NoPlan
    /\ loop_attempt = 0
    /\ current_response = NoCandidate
    /\ feedback = ""
    /\ evaluation = NoEvaluation
    /\ return_site = "none"
    /\ current_output = NoOutput
    /\ iteration = 0
    /\ audit_elapsed = 0
    /\ audit_exit = "none"
    /\ plan_log = <<>>
    /\ GwIdle
    /\ progress = NoProgress
    /\ result = NoResult
    /\ phaseLog = <<>>
    /\ lastCalls = NoCalls

\* run_full_cycle is called; it leaves max_retries of execute_with_critic at
\* its default.
RunFullCycle ==
    /\ epc = "idle"
    /\ progress' = Emit(progress, "Task Input", "active")
    /\ task' = CycleTask
    /\ entry' = "run_full_cycle"
    /\ epc' = "analyze"
    /\ max_retries' = DefaultMaxRetries
    /\ UNCHANGED <<reasoning_modules, new_plan, analysis, selected, adapted,
                   structured_plan, verification, current_plan, loopVars,
                   result, phaseLog, lastCalls, restVars>>

\* execute_with_critic is called by itself, with a plan and max_retries.
ExecuteWithCritic(retries) ==
    /\ epc = "idle"
    /\ UNCHANGED progress
    /\ reasoning_modules # <<>>
    /\ task' = CycleTask
    /\ entry' = "execute_with_critic"
    /\ epc' = "execute"
    /\ max_retries' = retries
    /\ current_plan' = Plan("initial", 0, 2, "medium")
    /\ UNCHANGED <<reasoning_modules, new_plan, analysis, selected, adapted,
                   structured_plan, verification, loopVars, result, phaseLog,
                   lastCalls, restVars>>

\* Phase 0, analyze_task.
AnalyzeTask(responses) ==
    /\ epc = "analyze"
    /\ progress' = EmitAll(progress, <<<<"Analyzing", "active">>,
                                       <<"Analyzing", "completed">>>>)
    /\ LET r == analyze_task(responses) IN
       /\ analysis' = r.value
       /\ lastCalls' = Calls("ANALYZE", r.calls, r.fell_back)
    /\ epc' = PhaseAfter("analyze")
    /\ phaseLog' = Append(phaseLog, "ANALYZE")
    /\ UNCHANGED <<reasoning_modules, task, entry, new_plan, max_retries, selected, adapted,
                   structured_plan, verification, current_plan, loopVars,
                   result, restVars>>

\* Phase 1, select_modules, and line 745 of run_full_cycle.
SelectModules(responses) ==
    /\ epc = "select"
    /\ progress' = EmitAll(progress, <<<<"Selecting", "active">>,
                                       <<"Selecting", "completed">>>>)
    /\ LET r == select_modules(reasoning_modules, responses) IN
       /\ selected' = r.value
       /\ lastCalls' = Calls("SELECT", r.calls, r.fell_back)
       /\ IF r.value = <<>>
          THEN /\ epc' = "done"
               /\ result' = ErrorResult("Failed to select modules")
          ELSE /\ epc' = PhaseAfter("select")
               /\ result' = result
    /\ phaseLog' = Append(phaseLog, "SELECT")
    /\ UNCHANGED <<reasoning_modules, task, entry, new_plan, max_retries, analysis, adapted,
                   structured_plan, verification, current_plan, loopVars,
                   restVars>>

\* Phase 2, adapt_modules, and line 750 of run_full_cycle.
AdaptModules(responses) ==
    /\ epc = "adapt"
    /\ progress' = EmitAll(progress, <<<<"Adapting", "active">>,
                                       <<"Adapting", "completed">>>>)
    /\ LET r == adapt_modules(selected, responses) IN
       /\ adapted' = r.value
       /\ lastCalls' = Calls("ADAPT", r.calls, r.fell_back)
       /\ IF r.value = <<>>
          THEN /\ epc' = "done"
               /\ result' = ErrorResult("Failed to adapt modules")
          ELSE /\ epc' = PhaseAfter("adapt")
               /\ result' = result
    /\ phaseLog' = Append(phaseLog, "ADAPT")
    /\ UNCHANGED <<reasoning_modules, task, entry, new_plan, max_retries, analysis, selected,
                   structured_plan, verification, current_plan, loopVars,
                   restVars>>

\* Phase 3, structure_reasoning, and line 755 of run_full_cycle.
StructureReasoning(responses) ==
    /\ epc = "structure"
    /\ LET r == structure_reasoning(responses) IN
       /\ current_plan' = r.value
       /\ lastCalls' = Calls("STRUCTURE", r.calls, r.value.name = "empty")
       /\ progress' = EmitAll(progress,
             <<<<"Structuring", "active">>,
               <<"Structuring", IF r.value.name = "empty" THEN "error"
                                ELSE "completed">>>>)
       /\ IF r.value.steps = 0
          THEN /\ epc' = "done"
               /\ result' = ErrorResult("Failed to structure plan")
          ELSE /\ epc' = PhaseAfter("structure")
               /\ result' = result
    /\ phaseLog' = Append(phaseLog, "STRUCTURE")
    /\ UNCHANGED <<reasoning_modules, task, entry, new_plan, max_retries, analysis, selected, adapted,
                   structured_plan, verification, loopVars, restVars>>

\* Phase 4, verify_plan, and lines 758-764 of run_full_cycle: the verdict is
\* read with verification.get, which raises on an answer that is no object;
\* otherwise it is logged, the plan is stored and handed to
\* execute_with_critic.
VerifyPlan(responses1, responses2) ==
    /\ epc = "verify"
    /\ progress' = EmitAll(progress, <<<<"Verifying", "active">>,
                                       <<"Verifying", "completed">>>>)
    /\ LET r == verify_plan(responses1, responses2) IN
       /\ verification' = r.value
       /\ lastCalls' = Calls("VERIFY", r.calls, FALSE)
       /\ IF HasGet(r.value)
          THEN /\ structured_plan' = current_plan
               /\ epc' = PhaseAfter("verify")
               /\ result' = result
          ELSE /\ structured_plan' = structured_plan
               /\ epc' = "raised"
               /\ result' = RaisedResult
    /\ phaseLog' = Append(phaseLog, "VERIFY")
    /\ UNCHANGED <<reasoning_modules, task, entry, new_plan, max_retries, analysis, selected, adapted,
                   current_plan, loopVars, restVars>>

WorkerReplies ==
    {[kind |-> "raise", text |-> c] : c \in {CHOOSE c \in Candidates : TRUE}}
        \cup {[kind |-> "text", text |-> c] : c \in Candidates}

\* Phase 5, execute_with_plan: the worker's answer is the candidate; an
\* exception of the call leaves execute_with_plan, execute_with_critic and
\* run_full_cycle.
ExecuteWithPlan(reply) ==
    /\ epc = "execute"
    /\ phaseLog' = Append(phaseLog, "EXECUTE")
    /\ lastCalls' = Calls("EXECUTE", 1, FALSE)
    /\ IF reply.kind = "raise"
       THEN /\ epc' = "raised"
            /\ result' = RaisedResult
            /\ current_response' = current_response
            /\ progress' = Emit(progress, "Executing", "active")
       ELSE /\ epc' = "critique"
            /\ result' = result
            /\ progress' = EmitAll(progress, <<<<"Executing", "active">>,
                                               <<"Executing", "completed">>>>)
            /\ current_response' =
                  [attempt |-> loop_attempt + 1, plan |-> current_plan,
                   text |-> reply.text]
    /\ UNCHANGED <<reasoning_modules, task, entry, new_plan, max_retries, analysis, selected, adapted,
                   structured_plan, verification, current_plan, loop_attempt,
                   feedback, evaluation, return_site, current_output,
                   iteration, audit_elapsed, audit_exit, restVars>>

\* execute_with_critic, lines 641, 673 and 685: the events of a rejection.
RejectionEvents(ev) ==
    <<<<"Critic", "active">>, <<"Critic", "active">>>>
    \o (IF NeedsReplan[ev.reason] THEN <<<<"Structuring", "active">>>> ELSE <<>>)

\* Phase 6, critic_agent.evaluate, and lines 648-700 of execute_with_critic
\* up to the next model call: synthesis, restructure, or the next attempt.
Critique(judge) ==
    /\ epc = "critique"
    /\ LET r == evaluate(task, current_response.text, judge)
           ev == r.value
       IN /\ evaluation' = ev
          /\ lastCalls' = Calls("CRITIQUE", r.calls, FALSE)
          /\ IF Validated(ev)
             THEN /\ epc' = "synthesize"
                  /\ return_site' = "validated"
                  /\ progress' = EmitAll(progress, <<<<"Critic", "active">>,
                                                     <<"Critic", "completed">>>>)
                  /\ UNCHANGED <<feedback, loop_attempt>>
             ELSE /\ feedback' = ev.feedback
                  /\ IF NeedsReplan[ev.reason]
                        /\ MayRestructure(loop_attempt, max_retries)
                     THEN /\ epc' = "restructure"
                          /\ progress' = EmitAll(progress, RejectionEvents(ev))
                          /\ UNCHANGED <<return_site, loop_attempt>>
                     ELSE IF HasNextAttempt(loop_attempt, max_retries)
                     THEN /\ epc' = "execute"
                          /\ loop_attempt' = loop_attempt + 1
                          /\ progress' = EmitAll(progress, RejectionEvents(ev))
                          /\ UNCHANGED return_site
                     ELSE /\ epc' = "synthesize"
                          /\ return_site' = "final"
                          /\ progress' = EmitAll(progress,
                                RejectionEvents(ev) \o <<<<"Critic", "completed">>>>)
                          /\ UNCHANGED loop_attempt
    /\ phaseLog' = Append(phaseLog, "CRITIQUE")
    /\ UNCHANGED <<reasoning_modules, task, entry, new_plan, max_retries, analysis, selected, adapted,
                   structured_plan, verification, current_plan,
                   current_response, current_output, iteration, audit_elapsed,
                   audit_exit, result,
                   restVars>>

\* Phase 3b, restructure_plan, and lines 694-700: the loop goes on with the
\* new plan when it has steps, with the old one otherwise.
RestructurePlan(responses) ==
    /\ epc = "restructure"
    /\ LET r == restructure_plan(current_plan, loop_attempt + 1, responses) IN
       /\ new_plan' = r.value
       /\ current_plan' = PlanAfterRestructure(current_plan, r.value)
       /\ lastCalls' = Calls("RESTRUCTURE", r.calls, r.fell_back)
    /\ IF HasNextAttempt(loop_attempt, max_retries)
       THEN /\ epc' = "execute"
            /\ loop_attempt' = loop_attempt + 1
            /\ return_site' = return_site
            /\ progress' = Emit(progress, "Structuring", "active")
       ELSE /\ epc' = "synthesize"
            /\ loop_attempt' = loop_attempt
            /\ return_site' = "final"
            /\ progress' = EmitAll(progress, <<<<"Structuring", "active">>,
                                               <<"Critic", "completed">>>>)
    /\ phaseLog' = Append(phaseLog, "RESTRUCTURE")
    /\ UNCHANGED <<reasoning_modules, task, entry, max_retries, analysis, selected, adapted,
                   structured_plan, verification, current_response, feedback,
                   evaluation, current_output, iteration, audit_elapsed,
                   audit_exit, result, restVars>>

\* Phase 7, synthesize_output up to its audit loop (lines 500-522): an
\* exception of the synthesis call leaves the cycle; a confused synthesis is
\* replaced by the candidate; without constraints the output is returned.
SynthesizeOutput(reply) ==
    /\ epc = "synthesize"
    /\ lastCalls' = Calls("SYNTHESIZE", 1, FALSE)
    /\ IF reply = "raise"
       THEN /\ epc' = "raised"
            /\ result' = RaisedResult
            /\ phaseLog' = Append(phaseLog, "SYNTHESIZE")
            /\ progress' = Emit(progress, "Synthesizing", "active")
            /\ UNCHANGED current_output
       ELSE LET out == SynthesizedOutput(current_response, reply)
            IN /\ current_output' = out
               /\ IF ~analysis.constraints
                  THEN /\ epc' = "done"
                       /\ result' = ResultAt(return_site, current_plan, out,
                                             evaluation, loop_attempt)
                       /\ phaseLog' = Append(phaseLog, "SYNTHESIZE")
                       /\ progress' = EmitAll(progress,
                             <<<<"Synthesizing", "active">>,
                               <<"Synthesizing", "completed">>>>
                             \o ReturnEvents(entry, return_site))
                  ELSE /\ epc' = "audit"
                       /\ result' = result
                       /\ phaseLog' = phaseLog \o <<"SYNTHESIZE", "AUDIT">>
                       /\ progress' = EmitAll(progress,
                             <<<<"Synthesizing", "active">>,
                               <<"Auditing", "active">>>>)
    /\ iteration' = 0
    /\ audit_elapsed' = 0
    /\ audit_exit' = "none"
    /\ UNCHANGED <<reasoning_modules, task, entry, new_plan, max_retries, analysis, selected, adapted,
                   structured_plan, verification, current_plan, loop_attempt,
                   current_response, feedback, evaluation, return_site,
                   restVars>>

\* Phase 7.5, one turn of the audit loop (lines 526-605): the deadline, the
\* iteration count, the audit call, its two accepting exits, the refinement.
\* responses is <<>> when the turn ends before its audit call, refined is
\* "none" when it ends before its refinement call; every attempt of the audit
\* call takes d_audit ticks and the refinement call d_refine ticks.
AuditPass(responses, refined, d_audit, d_refine) ==
    /\ epc = "audit"
    /\ LET effective_timeout ==
               EffectiveTimeouts[current_plan.complexity, current_plan.steps]
           before == ExitBeforeAudit(audit_elapsed, effective_timeout, iteration,
                                     audit_max_retries)
           audited == before = "none"
           r == IF audited
                THEN _call_and_parse_json(responses, AuditParseRetries)
                ELSE [ok |-> FALSE, calls |-> 0, value |-> NoAnalysis]
           audit_outcome == IF ~audited THEN before
                      ELSE IF ~r.ok THEN "error"
                      ELSE ExitAfterAudit(r.value)
           refining == audit_outcome = "none"
           exit == IF refining /\ refined = "raise" THEN "error" ELSE audit_outcome
       IN /\ audited <=> responses # <<>>
          /\ refining <=> refined # "none"
          /\ audited \/ d_audit = 0
          /\ refining \/ d_refine = 0
          /\ audit_elapsed' = audit_elapsed + r.calls * d_audit + d_refine
          /\ audit_exit' = exit
          /\ lastCalls' =
                Calls("AUDIT", r.calls + (IF refining THEN 1 ELSE 0), FALSE)
          /\ IF exit # "none"
             THEN /\ epc' = "done"
                  /\ result' = ResultAt(return_site, current_plan,
                                        current_output, evaluation, loop_attempt)
                  /\ progress' = EmitAll(progress,
                        (IF audited THEN <<<<"Auditing", "active">>>> ELSE <<>>)
                        \o <<<<"Auditing", "completed">>>>
                        \o ReturnEvents(entry, return_site))
                  /\ UNCHANGED <<current_output, iteration>>
             ELSE /\ epc' = "audit"
                  /\ result' = result
                  /\ progress' = Emit(progress, "Auditing", "active")
                  /\ current_output' =
                        RefinedOutput(current_output, refined, iteration + 1)
                  /\ iteration' = iteration + 1
    /\ UNCHANGED <<reasoning_modules, task, entry, new_plan, max_retries, analysis,
                   selected, adapted, structured_plan, verification,
                   current_plan, loop_attempt, current_response, feedback,
                   evaluation, return_site, phaseLog, restVars>>

\* The scripts of the model's answers, phase by phase.
AnalysisScripts == ScriptsFor(AnalysisValues, ParseRetries)
SelectionScripts == ScriptsFor(SelectedIdSets, ParseRetries)
PlanScripts == ScriptsFor(PlanSteps, ParseRetries)
VerificationScripts == ScriptsFor(VerificationValues, ParseRetries)
AuditScripts == ScriptsFor(AuditVerdicts, AuditParseRetries) \cup {<<>>}

\* The audit answers followed in a whole cycle: one verdict that asks for a
\* refinement and one that accepts.
CycleAuditVerdicts ==
    {v \in AuditVerdicts :
        v.structural_sufficiency_score = 50 /\ v.required_changes_type = "MAJOR"}
CycleAuditScripts == ScriptsFor(CycleAuditVerdicts, AuditParseRetries) \cup {<<>>}

\* One step of the cycle; the phase is tested ahead of the choice of the
\* model's answers.
NextCycle ==
    \/ RunFullCycle
    \/ \E retries \in 1..DefaultMaxRetries : ExecuteWithCritic(retries)
    \/ epc = "analyze" /\ \E responses \in AnalysisScripts : AnalyzeTask(responses)
    \/ epc = "select" /\ \E responses \in SelectionScripts : SelectModules(responses)
    \/ epc = "adapt" /\ \E responses \in ScriptsFor(AdaptedItemLists(selected), ParseRetries) :
          AdaptModules(responses)
    \/ epc = "structure" /\ \E responses \in PlanScripts : StructureReasoning(responses)
    \/ epc = "verify" /\ \E responses1, responses2 \in VerificationScripts :
          VerifyPlan(responses1, responses2)
    \/ \E reply \in WorkerReplies : ExecuteWithPlan(reply)
    \/ \E judge \in JudgeReplies : Critique(judge)
    \/ epc = "restructure" /\ \E responses \in PlanScripts : RestructurePlan(responses)
    \/ \E reply \in SynthesisReplies : SynthesizeOutput(reply)
    \/ epc = "audit" /\ \E responses \in CycleAuditScripts :
          \E refined \in SynthesisReplies \cup {"none"} :
             AuditPass(responses, refined, 0, 0)

\* The cycle is followed phase by phase, with model calls that answer within
\* the tick; the clock of the audit loop and all its verdicts are followed
\* in SpecAudit.
SpecCycle == InitCycle /\ [][NextCycle]_vars

\* The event loop resumes a cycle whose model call has answered.
FairSpecCycle == SpecCycle /\ WF_vars(NextCycle)

(***************************************************************************)
(* CriticAgent.evaluate called by itself, on any task and response.        *)
(***************************************************************************)
InitCritic ==
    /\ ClsIdle
    /\ TasksIdle
    /\ CallIdle
    /\ RolesIdle
    /\ LimiterNew(10, 0)
    /\ reasoning_modules = <<>>
    /\ task \in CriticTasks
    /\ entry = "evaluate"
    /\ epc = "evaluate"
    /\ max_retries = 0
    /\ analysis = NoAnalysis
    /\ selected = <<>>
    /\ adapted = <<>>
    /\ structured_plan = NoPlan
    /\ verification = NoVerification
    /\ current_plan = NoPlan
    /\ new_plan = NoPlan
    /\ loop_attempt = 0
    /\ \E r \in CriticResponses :
          current_response = [attempt |-> 0, plan |-> NoPlan, text |-> r]
    /\ feedback = ""
    /\ evaluation = NoEvaluation
    /\ return_site = "none"
    /\ current_output = NoOutput
    /\ iteration = 0
    /\ audit_elapsed = 0
    /\ audit_exit = "none"
    /\ plan_log = <<>>
    /\ GwIdle
    /\ progress = NoProgress
    /\ result = NoResult
    /\ phaseLog = <<>>
    /\ lastCalls = NoCalls

\* CriticAgent.evaluate, lines 89-138; lastCalls counts the calls of the
\* judge model.
Evaluate(judge) ==
    /\ UNCHANGED progress
    /\ epc = "evaluate"
    /\ LET r == evaluate(task, current_response.text, judge) IN
       /\ evaluation' = r.value
       /\ lastCalls' = Calls("CRITIQUE", r.calls, FALSE)
    /\ epc' = "evaluated"
    /\ UNCHANGED <<reasoning_modules, task, entry, new_plan, max_retries,
                   analysis, selected, adapted, structured_plan, verification,
                   current_plan, loop_attempt, current_response, feedback,
                   return_site, current_output, iteration, audit_elapsed,
                   audit_exit, result, phaseLog,
                   restVars>>

NextCritic == \E judge \in JudgeReplies : Evaluate(judge)

SpecCritic == InitCritic /\ [][NextCritic]_vars

(***************************************************************************)
(* synthesize_output on its own: the synthesis and the time-boxed audit    *)
(* loop, with model calls that take time.                                   *)
(***************************************************************************)
\* The verdicts synthesize_output is reached with, at its two call sites.
SiteVerdicts ==
    [validated |-> CriticEvaluation(95, "VALID", OtherFeedback, OtherFeedback),
     final |-> CriticEvaluation(40, "REJECT", OtherFeedback, OtherFeedback)]

\* execute_with_critic calls synthesize_output (lines 653-663, 706-716) with
\* a candidate, the analysis, and the complexity and steps of the plan.
InitAudit ==
    /\ ClsIdle
    /\ TasksIdle
    /\ CallIdle
    /\ RolesIdle
    /\ LimiterNew(10, 0)
    /\ reasoning_modules = <<>>
    /\ task = CycleTask
    /\ entry = "synthesize_output"
    /\ epc = "synthesize"
    /\ max_retries = 1
    /\ analysis \in AnalysisValues
    /\ selected = <<>>
    /\ adapted = <<>>
    /\ structured_plan = NoPlan
    /\ verification = NoVerification
    /\ \E c \in Complexities : current_plan = Plan("initial", 0, 2, c)
    /\ new_plan = NoPlan
    /\ loop_attempt = 0
    /\ \E r \in RawOutputs :
          current_response = [attempt |-> 1, plan |-> current_plan, text |-> r]
    /\ feedback = ""
    /\ return_site \in {"validated", "final"}
    /\ evaluation = SiteVerdicts[return_site]
    /\ current_output = NoOutput
    /\ iteration = 0
    /\ audit_elapsed = 0
    /\ audit_exit = "none"
    /\ plan_log = <<>>
    /\ GwIdle
    /\ progress = NoProgress
    /\ result = NoResult
    /\ phaseLog = <<>>
    /\ lastCalls = NoCalls

NextAudit ==
    \/ \E reply \in SynthesisReplies : SynthesizeOutput(reply)
    \/ epc = "audit" /\ \E responses \in AuditScripts :
          \E refined \in SynthesisReplies \cup {"none"} :
             \E d_audit, d_refine \in CallTicks :
                AuditPass(responses, refined, d_audit, d_refine)

SpecAudit == InitAudit /\ [][NextAudit]_vars

(***************************************************************************)
(* ReasoningPlan.from_dict and to_dict (models.py). A dictionary is a      *)
(* function from its keys; a plan is [steps, complexity] with steps a      *)
(* sequence of ReasoningPlanStep, each a record of its five fields.        *)
(***************************************************************************)
\* dict.get(key, default)
Get(d, key, default) == IF key \in DOMAIN d THEN d[key] ELSE default

\* dict.get(key) of a key whose value is a list: None when the key is absent.
\* "x or []" is x for a list x that is not empty and [] otherwise.
GetOrEmpty(d, key) == IF key \in DOMAIN d THEN d[key] ELSE <<>>

Restrict(d, keys) == [k \in keys |-> d[k]]

\* ReasoningPlanStep.to_dict, lines 53-61.
step_to_dict(step) ==
    [step_number |-> step.step_number, module_id |-> step.module_id,
     module_name |-> step.module_name, action |-> step.action,
     expected_output |-> step.expected_output]

\* A to_dict that writes the complexity under the key "complexity" (mutant
\* of to_dict).
to_dict_other_key(plan) ==
    [steps |-> [i \in 1..Len(plan.steps) |-> step_to_dict(plan.steps[i])],
     complexity |-> plan.complexity,
     total_steps |-> Len(plan.steps)]

\* ReasoningPlan.to_dict, lines 71-77.
to_dict(plan) ==
    [steps |-> [i \in 1..Len(plan.steps) |-> step_to_dict(plan.steps[i])],
     estimated_complexity |-> plan.complexity,
     total_steps |-> Len(plan.steps)]

\* A from_dict that numbers the steps from 0 (mutant of from_dict).
from_dict_from_zero(data) ==
    LET raw == GetOrEmpty(data, "steps") IN
    [steps |->
        [k \in 1..Len(raw) |->
            LET i == k - 1
                step == raw[k]
            IN [step_number |-> Get(step, "step_number", i),
                module_id |-> Get(step, "module_id", ""),
                module_name |-> Get(step, "module_name", ""),
                action |-> Get(step, "action", ""),
                expected_output |-> Get(step, "expected_output", "")]],
     complexity |-> Get(data, "estimated_complexity", "medium")]

\* ReasoningPlan.from_dict, lines 80-92: enumerate counts from 0, the k-th
\* step of the list has i = k - 1.
from_dict(data) ==
    LET raw == GetOrEmpty(data, "steps") IN
    [steps |->
        [k \in 1..Len(raw) |->
            LET i == k - 1
                step == raw[k]
            IN [step_number |-> Get(step, "step_number", i + 1),
                module_id |-> Get(step, "module_id", ""),
                module_name |-> Get(step, "module_name", ""),
                action |-> Get(step, "action", ""),
                expected_output |-> Get(step, "expected_output", "")]],
     complexity |-> Get(data, "estimated_complexity", "medium")]

\* The steps a dictionary or a plan of the model is made of: the indices a
\* step may carry, and the keys a step dictionary may have.
StepNumbers == {1, 5}
StepKeys == {"step_number", "module_id", "module_name", "action", "expected_output"}
StepKeySets == {StepKeys, StepKeys \ {"step_number"}, {"step_number"}, {"action"}, {}}

FullSteps ==
    {[step_number |-> n, module_id |-> "decomposition",
      module_name |-> "Décomposition", action |-> "Découper le problème",
      expected_output |-> "Sous-problèmes"] : n \in StepNumbers}

StepDicts == {Restrict(step, keys) : step \in FullSteps, keys \in StepKeySets}

SeqsUpTo(S, n) == UNION {[1..k -> S] : k \in 0..n}

\* The dictionaries from_dict is given: with or without "steps", with or
\* without the complexity, with or without a (wrong) "total_steps".
PlanDicts ==
    LET full == {[steps |-> steps, estimated_complexity |-> "high", total_steps |-> 9] :
                     steps \in SeqsUpTo(StepDicts, MaxPlanSteps)}
        keysets == {{"steps", "estimated_complexity", "total_steps"},
                    {"steps", "estimated_complexity"}, {"steps"},
                    {"estimated_complexity"}, {}}
    IN {Restrict(d, keys) : d \in full, keys \in keysets}

\* The plans to_dict is given.
Plans ==
    {[steps |-> steps, complexity |-> c] :
        steps \in SeqsUpTo(FullSteps, MaxPlanSteps),
        c \in {"low", "medium", "high"}}

Entry(kind, value) == [kind |-> kind, value |-> value]

\* How long a chain of from_dict and to_dict is followed: a dictionary, its
\* plan, the plan's dictionary, that dictionary's plan, and its dictionary.
PlanLogLen == 5

InitPlan ==
    /\ ClsIdle
    /\ TasksIdle
    /\ CallIdle
    /\ RolesIdle
    /\ LimiterNew(10, 0)
    /\ reasoning_modules = <<>>
    /\ task = ""
    /\ entry \in {"from_dict", "to_dict"}
    /\ epc = "idle"
    /\ max_retries = 0
    /\ analysis = NoAnalysis
    /\ selected = <<>>
    /\ adapted = <<>>
    /\ structured_plan = NoPlan
    /\ verification = NoVerification
    /\ current_plan = NoPlan
    /\ new_plan = NoPlan
    /\ loop_attempt = 0
    /\ current_response = NoCandidate
    /\ feedback = ""
    /\ evaluation = NoEvaluation
    /\ return_site = "none"
    /\ current_output = NoOutput
    /\ iteration = 0
    /\ audit_elapsed = 0
    /\ audit_exit = "none"
    /\ result = NoResult
    /\ phaseLog = <<>>
    /\ lastCalls = NoCalls
    /\ IF entry = "from_dict"
       THEN \E data \in PlanDicts : plan_log = <<Entry("dict", data)>>
       ELSE \E plan \in Plans : plan_log = <<Entry("plan", plan)>>
    /\ GwIdle
    /\ progress = NoProgress

\* ReasoningPlan.from_dict on the dictionary last produced or given.
FromDict ==
    /\ plan_log # <<>>
    /\ Len(plan_log) < PlanLogLen
    /\ plan_log[Len(plan_log)].kind = "dict"
    /\ plan_log' = Append(plan_log, Entry("plan", from_dict(plan_log[Len(plan_log)].value)))
    /\ UNCHANGED <<clsVars, limVars, taskVars, callVars, roleVars,
                   reasoning_modules, task, entry, epc, max_retries, analysis,
                   selected, adapted, structured_plan, verification,
                   current_plan, new_plan, loopVars, result, phaseLog,
                   lastCalls, gwVars, progress>>

\* ReasoningPlan.to_dict on the plan last built or given.
ToDict ==
    /\ plan_log # <<>>
    /\ Len(plan_log) < PlanLogLen
    /\ plan_log[Len(plan_log)].kind = "plan"
    /\ plan_log' = Append(plan_log, Entry("dict", to_dict(plan_log[Len(plan_log)].value)))
    /\ UNCHANGED <<clsVars, limVars, taskVars, callVars, roleVars,
                   reasoning_modules, task, entry, epc, max_retries, analysis,
                   selected, adapted, structured_plan, verification,
                   current_plan, new_plan, loopVars, result, phaseLog,
                   lastCalls, gwVars, progress>>

NextPlan == FromDict \/ ToDict

SpecPlan == InitPlan /\ [][NextPlan]_vars

(***************************************************************************)
(* Claims about ResilientCaller.call.  The classes of the scripted errors, *)
(* as section 4.2 of the specification words them: 429 and "rate limit"    *)
(* are retryable; 404 / "no endpoints found" is eligible for the fallback  *)
(* and not retryable; a rejected credential is neither.                    *)
(***************************************************************************)
RetryableTexts == {"rate limit error", "Error code: 429"}
FallbackOnlyTexts == {"Error code: 404 - No endpoints found"}
TerminalTexts == {"Invalid API key"}
\* Errors both retryable and eligible for the fallback by their status code.
RetryableEligibleTexts == {"Error code: 429"}

Done == pc \in {"returned", "raised"}

Budget == IF config.retry_enabled THEN config.max_retries + 1 ELSE 1

Count(ev) == Cardinality({i \in 1..Len(trace) : trace[i].ev = ev})

LastEvent == IF trace = <<>> THEN "none" ELSE trace[Len(trace)].ev

ReturnedOk == outcome = [kind |-> "returned", value |-> "ok", cause |-> ""]

ReturnedFallback == outcome = [kind |-> "returned", value |-> "fallback", cause |-> ""]

\* C1: retry enabled, fallback disabled, fn fails K times with a retryable
\* error and then succeeds: with max_retries >= K the call returns fn's
\* result after exactly K+1 invocations, with max_retries < K it raises
\* after exactly max_retries+1 invocations.
C1_RetryThenSucceed ==
    (/\ Done
     /\ config.retry_enabled
     /\ ~config.fallback_enabled
     /\ \A i \in 1..Len(callIn.script) : callIn.script[i] \in RetryableTexts)
    => LET K == Len(callIn.script) IN
       IF config.max_retries >= K
       THEN ReturnedOk /\ fnCalls = K + 1
       ELSE /\ outcome.kind = "raised"
            /\ outcome.value = callIn.script[config.max_retries + 1]
            /\ fnCalls = config.max_retries + 1

\* C1 witness: fn failed twice with retryable errors and the third
\* invocation returned, under a profile with max_retries = 2.
C1_Witness ==
    /\ Done
    /\ config.retry_enabled
    /\ ~config.fallback_enabled
    /\ config.max_retries = 2
    /\ callIn.script = <<"rate limit error", "Error code: 429">>
    /\ fnCalls = 3
    /\ ReturnedOk

\* C2: fallback enabled, a succeeding fallback supplied, fn's first
\* invocation raises an error eligible for the fallback and not retryable:
\* the call returns the fallback's result and fn was invoked exactly once,
\* whatever retry_enabled and max_retries are.
C2_FallbackOnNonRetryable ==
    (/\ Done
     /\ config.fallback_enabled
     /\ callIn.fallback = "ok"
     /\ Len(callIn.script) >= 1
     /\ callIn.script[1] \in FallbackOnlyTexts)
    => ReturnedFallback /\ fnCalls = 1 /\ fbCalls = 1

\* C2 witness: such a call has ended under a profile that allowed two retries.
C2_Witness ==
    /\ Done
    /\ config.fallback_enabled
    /\ config.retry_enabled
    /\ config.max_retries = 2
    /\ callIn.fallback = "ok"
    /\ Len(callIn.script) = 3
    /\ callIn.script[1] \in FallbackOnlyTexts
    /\ ReturnedFallback

C4_TerminalRaisedAtOnce ==
    (fnCalls >= 1 /\ last_exception \in TerminalTexts)
    => /\ pc = "raised"
       /\ outcome = [kind |-> "raised", value |-> last_exception, cause |-> ""]
       /\ LastEvent = "fn"
       /\ fbCalls = 0
       /\ Count("fallback") = 0
       /\ Count("acquire") = fnCalls
       /\ Count("sleep") = fnCalls - 1
       /\ callIn.script[1] \in TerminalTexts => fnCalls = 1

\* C4 witness: a terminal error at the second attempt, under a profile with
\* retries left and the fallback enabled and supplied.
C4_Witness ==
    /\ pc = "raised"
    /\ fnCalls = 2
    /\ last_exception \in TerminalTexts
    /\ config.retry_enabled
    /\ config.max_retries = 2
    /\ config.fallback_enabled
    /\ callIn.fallback = "ok"

\* C5: when the fallback is invoked and fails, the call raises the primary
\* function's last error, not the fallback's, with the fallback's error as
\* its cause.
C5_OriginalErrorChained ==
    (Done /\ fbCalls = 1 /\ callIn.fallback = "fail")
    => /\ outcome.kind = "raised"
       /\ outcome.value = callIn.script[fnCalls]
       /\ outcome.value # FallbackError
       /\ outcome.cause = FallbackError

\* C5 witness: two attempts failed, the fallback was invoked and failed.
C5_Witness ==
    /\ Done
    /\ fbCalls = 1
    /\ callIn.fallback = "fail"
    /\ fnCalls = 2
    /\ outcome.cause = FallbackError

\* C7 (as stated): on a caller whose profile has retry disabled, a call given
\* an override with retry enabled and max_retries = 1 retries a function
\* that fails once with a retryable error and returns its result after
\* exactly 2 invocations; the override is not passed on to fn.
C7_OverrideHonoured ==
    (/\ Done
     /\ ~config.retry_enabled
     /\ callIn.has_override
     /\ callIn.override.retry_enabled
     /\ callIn.override.max_retries = 1
     /\ callIn.script = <<"rate limit error">>)
    => /\ ReturnedOk
       /\ fnCalls = 2
       /\ "resilience_override" \notin fnKwargs

(***************************************************************************)
(* Claims about the classification.                                        *)
(***************************************************************************)
\* The signatures section 4.2 adds to the retryable set to make the set of
\* errors eligible for the fallback.
AddedFallbackSignatures ==
    {"404", "no endpoints found", "data policy", "model not available",
     "model unavailable"}

\* C6 (as stated): every error _is_retryable_error accepts is accepted by
\* _should_fallback, and so is every error carrying 404 or a no-endpoint,
\* data-policy or model-unavailable signature.
C6_FallbackSupersetOfRetryable ==
    verdict.done =>
        /\ verdict.retryable => verdict.fallback
        /\ (\E sig \in AddedFallbackSignatures : Contains(Lower(errMsg), sig))
              => verdict.fallback

(***************************************************************************)
(* Claims about the RateLimiter.                                           *)
(***************************************************************************)

\* C8 (as stated): on a new limiter of rate R, N back-to-back sequential
\* acquires take at least (N - R)/R seconds in total when N > R, and none of
\* them waits when N <= R.  With the rate in tenths and the time in ticks:
\* elapsed * rate >= TicksPerSec * (10 N - rate).
C8_SequentialAcquiresTakeAtLeast ==
    lpc["t1"] = "idle" =>
        LET N == acqDone["t1"]
            elapsed == now - hist.t0
        IN /\ 10 * N > rate => elapsed * rate >= TicksPerSec * (10 * N - rate)
           /\ 10 * N <= rate => elapsed = 0 /\ ~hist.waited

\* C9: concurrent acquires on one limiter are serialized.  (a) At most one
\* task is inside the locked body, and it holds the lock.  (b) While a task
\* sleeps inside the body no other step changes tokens or last_update.
\* (c) k acquires made at the same instant on a bucket that held at least k
\* tokens, with no rate change, leave exactly k fewer tokens.  (d) Every
\* acquire that has been called returns.
C9_Mutex ==
    /\ Cardinality({p \in Tasks : lpc[p] = "sleeping"}) <= 1
    /\ \A p \in Tasks : lpc[p] = "sleeping" => lockHolder = p

C9_NoInterleaving ==
    (\E p \in Tasks : lpc[p] = "sleeping" /\ lpc'[p] = "sleeping")
        => tokens' = tokens /\ last_update' = last_update

C9_ExactlyKFewer ==
    (/\ now = hist.t0
     /\ hist.sets = 0
     /\ hist.tokens0 >= hist.entered * TokenUnit)
        => tokens = hist.tokens0 - hist.entered * TokenUnit

C9_ConcurrentAcquiresSerialized ==
    /\ [](C9_Mutex /\ C9_ExactlyKFewer)
    /\ [][C9_NoInterleaving]_vars
    /\ \A p \in Tasks : (lpc[p] # "idle") ~> (lpc[p] = "idle" /\ acqDone[p] = 1)

\* C9 witness: all three tasks have returned from acquire, one of them had
\* to queue on the lock behind a task that slept.
C9_Witness ==
    /\ \A p \in Tasks : acqDone[p] = 1
    /\ hist.waited
    /\ hist.queued

\* C10: a set_rate(r) step sets rate to max(0.1, r) and leaves tokens and
\* last_update as they were, also while an acquire is sleeping.
C10_SetRateKeepsBucket ==
    [][lastOp'.op = "set_rate" =>
          /\ rate' = (IF lastOp'.arg < 1 THEN 1 ELSE lastOp'.arg)
          /\ tokens' = tokens
          /\ last_update' = last_update]_vars

\* C10 witness: set_rate has just run, under its floor, while a task sleeps
\* in acquire and another one queues on the lock.
C10_Witness ==
    /\ lastOp.op = "set_rate"
    /\ lastOp.arg = 0
    /\ rate = 1
    /\ lockWaiters # <<>>
    /\ \E p \in Tasks : lpc[p] = "sleeping"

\* C11 (as stated): in every reachable state of a RateLimiter, after any
\* sequence of acquire and set_rate operations, 0 <= tokens <= rate.
C11_TokensWithinRate ==
    /\ 0 <= tokens
    /\ tokens <= rate * TicksPerSec

\* C11 (amended): tokens is never negative, and it is within the current
\* rate in every state whose last limiter operation is an acquire (its
\* refill caps the bucket before a token is taken); a set_rate that lowers
\* the rate leaves the excess in place until the next acquire.
C11_TokensCappedByAcquire ==
    /\ 0 <= tokens
    /\ lastOp.op \in {"acquire", "wake"} => tokens <= rate * TicksPerSec

\* C11 witness: set_rate lowered the rate under what the bucket held, and
\* an acquire has run since and taken a token.
C11_Witness ==
    /\ hist.sets > 0
    /\ lastOp.op = "acquire"
    /\ rate * TicksPerSec < hist.tokens0
    /\ \E p \in Tasks : acqDone[p] = 1

(***************************************************************************)
(* Claims about the role-scoped keys.                                      *)
(***************************************************************************)
ClaimedKey(role, provider) ==
    CASE role = "root" -> provider
      [] role = "worker" -> provider \o "_worker"
      [] OTHER -> provider \o "_audit"

\* C12 (as stated): in every cycle the root, worker and audit clients route
\* their calls through the keys "<provider>", "<provider>_worker" and
\* "<provider>_audit", each with its own limiter, and a token acquired by
\* one role never changes the token count of another role's limiter.
C12_RoleScopedKeys ==
    \A r \in Roles :
        clients[r] # NoClient => clients[r].key = ClaimedKey(r, clients[r].provider)

C12_OtherRolesUntouched ==
    roleCalls' = roleCalls + 1 =>
        \A q \in Roles \ {lastRole'.role} :
            (clients[q] # NoClient /\ _rate_limiters[clients[q].key].made) =>
                _rate_limiters'[clients[q].key].tokens
                    = _rate_limiters[clients[q].key].tokens

C12_RolesThrottleIndependently ==
    /\ []C12_RoleScopedKeys
    /\ [][C12_OtherRolesUntouched]_vars

(***************************************************************************)
(* Claims about the engine cycle.  phaseLog holds the phases in the order  *)
(* they started; a phase is a whole number of steps of the model, so a     *)
(* phase starts after the one before it in the log has finished.           *)
(***************************************************************************)
PhasesAt(phase) == {i \in 1..Len(phaseLog) : phaseLog[i] = phase}

Started(phase) == PhasesAt(phase) # {}

Returned == epc = "done" /\ result.kind = "result"

\* The phases that may start right after a phase, in the order of section
\* 4.4: forward by one, and backward from CRITIQUE to EXECUTE only, directly
\* or through a restructure.
PhaseFollowers(phase) ==
    CASE phase = "ANALYZE" -> {"SELECT"}
      [] phase = "SELECT" -> {"ADAPT"}
      [] phase = "ADAPT" -> {"STRUCTURE"}
      [] phase = "STRUCTURE" -> {"VERIFY"}
      [] phase = "VERIFY" -> {"EXECUTE"}
      [] phase = "EXECUTE" -> {"CRITIQUE"}
      [] phase = "CRITIQUE" -> {"EXECUTE", "RESTRUCTURE", "SYNTHESIZE"}
      [] phase = "RESTRUCTURE" -> {"EXECUTE"}
      [] phase = "SYNTHESIZE" -> {"AUDIT"}
      [] phase = "AUDIT" -> {}

\* C13: within one cycle the phases start in the order ANALYZE, SELECT,
\* ADAPT, STRUCTURE, VERIFY, EXECUTE, CRITIQUE, SYNTHESIZE, AUDIT; no phase
\* starts while the output of a later one exists; the only backward
\* transition is from CRITIQUE to EXECUTE, optionally through a restructure;
\* SYNTHESIZE is entered exactly once per non-error cycle, after the last
\* CRITIQUE.
C13_PhaseOrder ==
    /\ (entry = "run_full_cycle" /\ phaseLog # <<>>) => phaseLog[1] = "ANALYZE"
    /\ \A i \in 1..(Len(phaseLog) - 1) :
           phaseLog[i + 1] \in PhaseFollowers(phaseLog[i])
    /\ epc = "analyze" => selected = <<>>
    /\ epc \in {"analyze", "select"} => adapted = <<>>
    /\ epc \in {"analyze", "select", "adapt"} => current_plan = NoPlan
    /\ epc \in {"analyze", "select", "adapt", "structure"} =>
           verification = NoVerification
    /\ epc \in {"analyze", "select", "adapt", "structure", "verify"} =>
           /\ current_response = NoCandidate
           /\ evaluation = NoEvaluation
    /\ epc \in {"analyze", "select", "adapt", "structure", "verify", "execute",
                "critique", "restructure"} => current_output = NoOutput
    /\ Cardinality(PhasesAt("SYNTHESIZE")) <= 1
    /\ Returned =>
           /\ Cardinality(PhasesAt("SYNTHESIZE")) = 1
           /\ Started("CRITIQUE")
           /\ \A i \in PhasesAt("CRITIQUE") :
                  \A j \in PhasesAt("SYNTHESIZE") : i < j

\* C13 witness: a cycle entered by run_full_cycle has returned a result
\* after it went back to EXECUTE through a restructure and audited its
\* synthesis.
C13_Witness ==
    /\ entry = "run_full_cycle"
    /\ Returned
    /\ Started("RESTRUCTURE")
    /\ Started("AUDIT")
    /\ Cardinality(PhasesAt("EXECUTE")) >= 2

\* C14 (as stated): run_full_cycle returns an {error} result only when
\* SELECT yields no strategies or STRUCTURE yields a plan with no steps; no
\* outcome of ANALYZE, ADAPT or VERIFY ends the cycle with an {error}
\* result.
C14_OnlyTwoHardStops ==
    result.kind = "error" =>
        \/ lastCalls.phase = "SELECT" /\ selected = <<>>
        \/ lastCalls.phase = "STRUCTURE" /\ current_plan.steps = 0

\* C15 (as stated): for any pattern of model-call failures and unparseable
\* responses in any phase, EXECUTE and SYNTHESIZE included, run_full_cycle
\* returns a result and never propagates an exception to its caller.
C15_NeverPropagates ==
    entry = "run_full_cycle" => (epc # "raised" /\ result.kind # "raised")

\* C16 (as stated): when every call-and-parse attempt of SELECT fails,
\* select_modules does not raise and returns the fixed default subset of
\* strategies, which is never empty, so the cycle proceeds to ADAPT; also
\* when the strategy catalog could not be loaded.
C16_SelectFallbackNeverEmpty ==
    (lastCalls.phase = "SELECT" /\ lastCalls.fell_back) =>
        /\ selected # <<>>
        /\ {selected[i].id : i \in 1..Len(selected)} =
               {"decomposer_le_probleme", "identifier_les_contraintes",
                "brainstorming"}
        /\ epc = "adapt"
        /\ result = NoResult

\* C17: when the call-and-parse of ADAPT fails on every attempt (or an item
\* of its answer lacks a key), adapt_modules does not raise and returns
\* exactly one contextualized strategy per selected strategy, in the same
\* order, each with that strategy's unmodified description and an empty
\* action list; the cycle goes on to STRUCTURE.
C17_AdaptFallbackGeneric ==
    (lastCalls.phase = "ADAPT" /\ lastCalls.fell_back) =>
        /\ epc = "structure"
        /\ result = NoResult
        /\ Len(adapted) = Len(selected)
        /\ \A i \in 1..Len(selected) :
               /\ adapted[i].base = selected[i]
               /\ adapted[i].adapted_description = selected[i].description
               /\ adapted[i].specific_actions = <<>>

\* C17 witness: the three attempts of ADAPT have failed on a selection of
\* several strategies.
C17_Witness ==
    /\ lastCalls = [phase |-> "ADAPT", calls |-> 3, fell_back |-> TRUE]
    /\ Len(selected) >= 2
    /\ adapted # <<>>

\* The number of EXECUTE phases started so far: the 1-based number of the
\* attempt whose candidate is the current one.
AttemptsStarted == Cardinality(PhasesAt("EXECUTE"))

LastOf(phase) == CHOOSE i \in PhasesAt(phase) : \A j \in PhasesAt(phase) : j <= i

\* C18: whenever CRITIQUE scores the candidate of attempt k at 0.8 or more
\* (80 hundredths), the engine goes to SYNTHESIZE with that candidate, with
\* no EXECUTE and no restructure after that CRITIQUE, and the result has
\* attempts = k and critic_score equal to that score; a first attempt
\* scored 0.95 returns attempts = 1 and the initially structured plan.
C18_ValidatedIsSynthesized ==
    (Started("CRITIQUE") /\ evaluation.score >= 80) =>
        /\ epc \in {"synthesize", "audit", "done", "raised"}
        /\ \A i \in PhasesAt("EXECUTE") \cup PhasesAt("RESTRUCTURE") :
               i < LastOf("CRITIQUE")
        /\ current_response.attempt = AttemptsStarted
        /\ current_output # NoOutput => current_output.of = current_response
        /\ Returned =>
               /\ result.attempts = AttemptsStarted
               /\ result.critic_score = evaluation.score
               /\ result.final_output.of = current_response
               /\ ~result.failed_validation
        /\ (Returned /\ AttemptsStarted = 1 /\ evaluation.score = 95) =>
               /\ result.attempts = 1
               /\ ~Started("RESTRUCTURE")
               /\ entry = "run_full_cycle" => result.plan = structured_plan

\* C18 witness: run_full_cycle has returned after its second attempt was
\* scored exactly 0.8.
C18_Witness ==
    /\ entry = "run_full_cycle"
    /\ Returned
    /\ AttemptsStarted = 2
    /\ evaluation.score = 80
    /\ result.attempts = 2

FirstCritique == CHOOSE i \in PhasesAt("CRITIQUE") : \A j \in PhasesAt("CRITIQUE") : i <= j

\* Attempt 1 was followed by the only restructure so far, whose model call
\* answered a plan with steps (restructure_plan hands back the old plan when
\* the call fails), under max_retries = 3.
RestructuredAfterFirstAttempt ==
    /\ max_retries = 3
    /\ Started("CRITIQUE")
    /\ PhasesAt("RESTRUCTURE") = {FirstCritique + 1}
    /\ new_plan.name = "restructured"
    /\ new_plan.steps > 0

\* C19: with max_retries = 3, when CRITIQUE scores attempt 1 below 0.8 with
\* a plan-deficiency reason the engine restructures; when that yields a
\* non-empty new plan, the next EXECUTE and CRITIQUE use the new plan; and
\* when attempt 2 then scores 0.8 or more, the result has attempts = 2 and
\* its plan is the restructured plan, not the initial one.
C19_RestructuredPlanIsUsed ==
    /\ (/\ max_retries = 3
        /\ AttemptsStarted = 1
        /\ phaseLog[Len(phaseLog)] = "CRITIQUE"
        /\ evaluation.score < 80
        /\ evaluation.reason = "Le plan oublie une étape") =>
           epc = "restructure"
    /\ RestructuredAfterFirstAttempt =>
           /\ AttemptsStarted = 1 => (epc = "execute" /\ current_plan = new_plan)
           /\ AttemptsStarted = 2 =>
                  /\ current_plan = new_plan
                  /\ current_response.attempt = 2 =>
                         current_response.plan = new_plan
                  /\ (Returned /\ evaluation.score >= 80) =>
                         /\ result.attempts = 2
                         /\ result.plan = new_plan
                         /\ result.plan # Plan("initial", 0, 2, "medium")
                         /\ entry = "run_full_cycle" =>
                                result.plan # structured_plan

\* C19 witness: run_full_cycle restructured after a first attempt scored
\* 0.4, and has returned the second attempt, scored 0.8 or more, with the
\* new plan.
C19_Witness ==
    /\ entry = "run_full_cycle"
    /\ RestructuredAfterFirstAttempt
    /\ Returned
    /\ AttemptsStarted = 2
    /\ evaluation.score >= 80
    /\ result.plan.name = "restructured"

\* Every attempt max_retries allows has been critiqued and the last verdict
\* is under 0.8: no attempt reached 0.8, for the loop leaves at the first
\* one that does.
Exhausted ==
    /\ entry # "none"
    /\ Cardinality(PhasesAt("CRITIQUE")) = max_retries
    /\ evaluation.score < 80

C20_LoopBounds ==
    entry # "none" =>
        /\ max_retries >= 1
        /\ AttemptsStarted <= max_retries
        /\ Cardinality(PhasesAt("RESTRUCTURE")) <= max_retries - 1

C20_ExhaustedIsSynthesized ==
    Exhausted =>
        /\ epc \in {"synthesize", "audit", "done", "raised"}
        /\ phaseLog[Len(phaseLog)] \in {"CRITIQUE", "SYNTHESIZE", "AUDIT"}
        /\ current_response.attempt = max_retries
        /\ current_output # NoOutput => current_output.of = current_response
        /\ epc = "done" =>
               /\ result.kind = "result"
               /\ result.final_output = current_output
               /\ result.final_output.of = current_response
               /\ result.note = evaluation.score
               /\ result.critic_score = evaluation.score
               /\ result.failed_validation

\* C20: for max_retries >= 1 and any sequence of critic scores the
\* EXECUTE/CRITIQUE loop terminates: EXECUTE runs at most max_retries times
\* per cycle and restructure at most max_retries - 1 times; a call that
\* was entered leaves the loop and ends (it returns, or a model call of
\* EXECUTE or SYNTHESIZE raises); when no attempt reaches 0.8 the
\* engine goes to SYNTHESIZE with the last candidate and the result it
\* returns is not an error and holds that synthesis annotated with the
\* final critic score.
C20_LoopTerminates ==
    /\ []C20_LoopBounds
    /\ []C20_ExhaustedIsSynthesized
    /\ (entry # "none") ~> (epc \in {"done", "raised"})

\* C20 witness: three attempts under 0.8 and two restructures later,
\* run_full_cycle has returned the synthesis of the third candidate with the
\* final score.
C20_Witness ==
    /\ entry = "run_full_cycle"
    /\ Exhausted
    /\ Returned
    /\ AttemptsStarted = 3
    /\ Cardinality(PhasesAt("RESTRUCTURE")) = 2
    /\ result.final_output.of.attempt = 3
    /\ result.note = evaluation.score

\* C21 (as stated): every result of a cycle that is not an {error} result
\* holds a plan, a final output, a critic score and attempts, with attempts
\* equal to the number of EXECUTE phases performed, on the accepted path and
\* on the retries-exhausted path alike.  (A result without the "attempts"
\* key is the one whose attempts is 0.)
C21_ResultCountsAttempts ==
    Returned =>
        /\ result.plan = current_plan
        /\ result.final_output = current_output
        /\ result.critic_score = evaluation.score
        /\ result.attempts = AttemptsStarted

(***************************************************************************)
(* Claims about the critic.                                                *)
(***************************************************************************)
Evaluated == epc = "evaluated"

TooShort == Len(Strip(current_response.text)) < 50

\* C22 (as stated): any candidate shorter than 50 characters after
\* trimming is rejected with status REJECT and the short-answer score 0.2
\* (20 hundredths), and the judge model is invoked zero times.
C22_ShortIsRejectedAtFixedScore ==
    (Evaluated /\ TooShort) =>
        /\ evaluation.status = "REJECT"
        /\ evaluation.score = 20
        /\ lastCalls.calls = 0

\* C22 (amended): any candidate shorter than 50 characters after trimming
\* is rejected with status REJECT and zero calls of the judge model; its
\* score is 0.2, or 0.1 when it holds a suspect term and the task asks for
\* no fiction (that rule is tested first); and whenever the heuristic gate
\* rejects, the judge model is not called.
C22_HeuristicGateSkipsJudge ==
    Evaluated =>
        /\ TooShort =>
               /\ evaluation.status = "REJECT"
               /\ lastCalls.calls = 0
               /\ evaluation.score \in {10, 20}
               /\ evaluation.score = 10 =>
                      /\ \E i \in 1..Len(fake_terms) :
                             Contains(Lower(current_response.text), fake_terms[i])
                      /\ \A w \in fiction_terms : ~Contains(Lower(task), w)
        /\ (\/ evaluation.reason = "Réponse trop courte ou vide."
            \/ Contains(evaluation.reason, "Détection heuristique")) =>
               /\ evaluation.status = "REJECT"
               /\ lastCalls.calls = 0
        /\ lastCalls.calls \in {0, 1}

\* C22 witness: a short candidate with a suspect term was rejected at 0.1,
\* by the first rule, without a call of the judge.
C22_Witness ==
    /\ Evaluated
    /\ TooShort
    /\ current_response.text = "import antigravity"
    /\ evaluation.score = 10
    /\ lastCalls.calls = 0

\* C23: the critic fails closed. When the judge is called and its call raises
\* or its answer cannot be parsed, evaluate returns score 0 with status ERROR
\* (the cycle does not raise), and the loop treats the verdict as a rejection:
\* it is never the validated return, and it goes to SYNTHESIZE only when no
\* attempt remains.
C23_CriticFailsClosed ==
    [][\A judge \in JudgeReplies :
          (/\ Critique(judge)
           /\ judge.kind \in FailKinds
           /\ HeuristicResults[task, current_response.text] = NoEvaluation)
          => /\ evaluation'.status = "ERROR"
             /\ evaluation'.score = 0
             /\ lastCalls'.calls = 1
             /\ epc' \in {"execute", "restructure", "synthesize"}
             /\ return_site' # "validated"
             /\ result' = result
             /\ epc' = "synthesize"
                   => /\ ~HasNextAttempt(loop_attempt, max_retries)
                      /\ return_site' = "final"]_vars

\* The judge failed on the first attempt and the loop starts the second.
C23_Witness ==
    /\ evaluation.status = "ERROR"
    /\ evaluation.score = 0
    /\ lastCalls = [phase |-> "CRITIQUE", calls |-> 1, fell_back |-> FALSE]
    /\ epc = "execute"
    /\ loop_attempt = 1

\* C24: synthesis and audit refinement never replace the current output by a
\* text on which the confusion detector fires. A flagged synthesis leaves the
\* pre-synthesis candidate as the output, a flagged refinement leaves the
\* version held before it, and a text that is not flagged is adopted.
C24_ConfusedTextNeverAdopted ==
    [][/\ \A reply \in SynthesisTexts :
              SynthesizeOutput(reply) =>
                  IF Confused[reply]
                  THEN /\ current_output'.text = current_response.text
                       /\ current_output'.of = current_response
                  ELSE current_output'.text = reply
       /\ \A responses \in AuditScripts, refined \in SynthesisTexts :
              (\E d_audit, d_refine \in CallTicks :
                  AuditPass(responses, refined, d_audit, d_refine)) =>
                  IF Confused[refined]
                  THEN current_output' = current_output
                  ELSE current_output'.text = refined
       /\ current_output'.text # current_output.text =>
              \/ ~Confused[current_output'.text]
              \/ current_output'.text = current_response.text]_vars

\* A flagged synthesis and then a flagged refinement: after one audit pass
\* the output is still the candidate.
C24_Witness ==
    /\ epc = "audit"
    /\ iteration = 1
    /\ current_output.kind = "candidate"
    /\ current_output.text = current_response.text
    /\ current_response.text = LongText

\* The effective timeout of the running audit, in ticks.
AuditDeadline == EffectiveTimeouts[current_plan.complexity, current_plan.steps]

\* C25: with constraints present, when the audit loop finds its deadline
\* exceeded it returns the current output as it is, with no annotation of its
\* own and no further audit or refinement call, and does not raise; and no
\* turn of the audit loop raises, whatever its audit and refinement calls do.
C25_DeadlineReturnsCurrentOutput ==
    [][epc = "audit" =>
          /\ analysis.constraints
          /\ epc' \in {"audit", "done"}
          /\ result'.kind # "raised"
          /\ audit_elapsed > AuditDeadline =>
                /\ epc' = "done"
                /\ audit_exit' = "deadline"
                /\ lastCalls'.calls = 0
                /\ audit_elapsed' = audit_elapsed
                /\ current_output' = current_output
                /\ result'.kind = "result"
                /\ result'.final_output = current_output
                /\ return_site = "validated" => result'.note = NoNote]_vars

\* The deadline was found exceeded after one refinement, and the refined
\* output was returned.
C25_Witness ==
    /\ epc = "done"
    /\ audit_exit = "deadline"
    /\ iteration = 1
    /\ current_output.kind = "refined"
    /\ result.final_output = current_output
    /\ lastCalls.calls = 0

\* C26: the audit lasts at most its effective timeout plus the time of one
\* model call.
C26_AuditDurationBound ==
    (entry = "synthesize_output" /\ epc = "done") =>
        audit_elapsed <= AuditDeadline + MaxCallTicks

\* C27: in a turn of the audit loop the exits are tried in the order
\* deadline, iteration count, sufficiency (flag or score of 90 or more),
\* change type NONE or MINOR; a refinement is requested only when none
\* applies, so the loop makes at most audit_max_retries refinements and none
\* after an accepting verdict.
C27_AuditExitOrder ==
    [][\A responses \in AuditScripts, refined \in SynthesisReplies \cup {"none"},
          d_audit \in CallTicks, d_refine \in CallTicks :
          AuditPass(responses, refined, d_audit, d_refine) =>
              LET r == _call_and_parse_json(responses, AuditParseRetries)
                  late == audit_elapsed > AuditDeadline
                  spent == iteration >= audit_max_retries
                  sufficient ==
                      /\ r.ok
                      /\ \/ r.value.is_sufficient
                         \/ r.value.structural_sufficiency_score >= 90
                  minor == r.ok /\ r.value.required_changes_type \in {"NONE", "MINOR"}
              IN /\ late => audit_exit' = "deadline" /\ responses = <<>>
                 /\ (~late /\ spent) =>
                        audit_exit' = "max_iterations" /\ responses = <<>>
                 /\ (~late /\ ~spent) => responses # <<>>
                 /\ (~late /\ ~spent /\ sufficient) => audit_exit' = "sufficient"
                 /\ (~late /\ ~spent /\ ~sufficient /\ minor) => audit_exit' = "minor"
                 /\ refined # "none" <=>
                        ~late /\ ~spent /\ r.ok /\ ~sufficient /\ ~minor
                 /\ refined = "none" =>
                        /\ epc' = "done"
                        /\ UNCHANGED <<current_output, iteration>>
                 /\ iteration' <= audit_max_retries]_vars

\* The deadline and the iteration count were both reached, and the audit
\* left by the deadline.
C27_Witness ==
    /\ epc = "done"
    /\ audit_exit = "deadline"
    /\ iteration = audit_max_retries
    /\ audit_elapsed > AuditDeadline

\* The places of plan_log where from_dict was applied: a dictionary followed
\* by its plan.
Loaded == {k \in 1..(Len(plan_log) - 1) : plan_log[k].kind = "dict"}

\* The places of plan_log where to_dict was applied.
Dumped == {k \in 1..(Len(plan_log) - 1) : plan_log[k].kind = "plan"}

\* C28: from_dict gives every step without an explicit index the index
\* (position in the input + 1), keeps an explicit index as it is, and when no
\* step carries one the indices are 1..n in input order.
C28_DefaultStepIndices ==
    \A k \in Loaded :
        LET data == plan_log[k].value
            raw == IF "steps" \in DOMAIN data THEN data["steps"] ELSE <<>>
            plan == plan_log[k + 1].value
        IN /\ Len(plan.steps) = Len(raw)
           /\ \A j \in 1..Len(raw) :
                  IF "step_number" \in DOMAIN raw[j]
                  THEN plan.steps[j].step_number = raw[j]["step_number"]
                  ELSE plan.steps[j].step_number = j
           /\ (\A j \in 1..Len(raw) : "step_number" \notin DOMAIN raw[j]) =>
                  [j \in 1..Len(raw) |-> plan.steps[j].step_number]
                      = [j \in 1..Len(raw) |-> j]

\* from_dict has numbered two steps that carry no index.
C28_Witness ==
    /\ Len(plan_log) >= 2
    /\ plan_log[1].kind = "dict"
    /\ "steps" \in DOMAIN plan_log[1].value
    /\ Len(plan_log[1].value["steps"]) = 2
    /\ \A j \in 1..2 : "step_number" \notin DOMAIN plan_log[1].value["steps"][j]
    /\ plan_log[2].value.steps[2].step_number = 2

\* C29: serialization round-trips. from_dict(to_dict(p)) equals p, and
\* to_dict(from_dict(d)), applied to its own output, gives that output.
C29_RoundTrip ==
    /\ \A k \in Dumped :
           k + 2 <= Len(plan_log) => plan_log[k + 2].value = plan_log[k].value
    /\ \A k \in Loaded :
           k + 4 <= Len(plan_log) => plan_log[k + 4].value = plan_log[k + 2].value

\* A plan of two steps with indices 5 and 1 and complexity "high" went
\* through to_dict and from_dict.
C29_Witness ==
    /\ Len(plan_log) >= 3
    /\ plan_log[1].kind = "plan"
    /\ plan_log[1].value.complexity = "high"
    /\ Len(plan_log[1].value.steps) = 2
    /\ plan_log[1].value.steps[1].step_number = 5
    /\ plan_log[1].value.steps[2].step_number = 1
    /\ plan_log[3].value = plan_log[1].value

\* C30: VERIFY never blocks the cycle. Whatever the verifier answers, the
\* cycle goes on to EXECUTE with the plan STRUCTURE produced.
C30_VerifyNeverBlocks ==
    [][\A responses1 \in VerificationScripts, responses2 \in VerificationScripts :
          VerifyPlan(responses1, responses2) =>
              /\ epc' = "execute"
              /\ result' = result
              /\ current_plan' = current_plan
              /\ structured_plan' = current_plan]_vars


(***************************************************************************)
(* Claims about the order of the events of one ResilientCaller.call.       *)
(***************************************************************************)
\* The positions of the trace that hold event ev.
Positions(ev) == {i \in 1..Len(trace) : trace[i].ev = ev}

\* The number of fn invocations in the first i events of the trace.
FnBefore(i) == Cardinality({j \in 1..i : trace[j].ev = "fn"})

\* C32: every invocation of fn and of fallback_fn is preceded by its own
\* acquire: the event just before an invocation is an acquire, and when the
\* call is over, whatever its outcome, the number of acquires equals the
\* number of fn invocations plus the number of fallback_fn invocations.
C32_EveryInvocationHasItsAcquire ==
    /\ \A i \in Positions("fn") \cup Positions("fallback") :
          i > 1 /\ trace[i - 1].ev = "acquire"
    /\ Count("fn") = fnCalls
    /\ Count("fallback") = fbCalls
    /\ Done => Count("acquire") = fnCalls + fbCalls

\* C32 witness: a call that retried twice and then fell back has ended with
\* four acquires for three fn invocations and one fallback invocation.
C32_Witness ==
    /\ Done
    /\ fnCalls = 3
    /\ fbCalls = 1
    /\ Count("acquire") = 4

\* C33: a sleep happens only after a failed attempt i with attempts left, it
\* lasts base_delay * 2^i, and it is followed by an acquire and then by fn,
\* in that order; a retryable failure with attempts left is followed by that
\* sleep; the failure of the last attempt is followed by no sleep and by no
\* acquire other than the one that belongs to the fallback.
C33_BackoffThenAcquireThenInvoke ==
    /\ \A i \in Positions("sleep") :
          LET k == FnBefore(i) - 1 IN
          /\ i > 1 /\ trace[i - 1].ev = "fn"
          /\ k >= 0 /\ k < Budget - 1
          /\ callIn.script[k + 1] \in RetryableTexts
          /\ trace[i].arg = config.retry_base_delay * Pow2(k)
          /\ i + 1 <= Len(trace) => trace[i + 1].ev = "acquire"
          /\ i + 2 <= Len(trace) => trace[i + 2].ev = "fn"
          /\ (pc \notin {"backoff", "acquire_retry", "invoke"}) => i + 2 <= Len(trace)
    /\ \A i, j \in Positions("sleep") :
          FnBefore(j) = FnBefore(i) + 1 => trace[j].arg = 2 * trace[i].arg
    /\ \A i \in Positions("fn") :
          LET k == FnBefore(i) - 1 IN
          /\ (/\ k + 1 <= Len(callIn.script)
              /\ callIn.script[k + 1] \in RetryableTexts
              /\ k < Budget - 1
              /\ i < Len(trace))
             => trace[i + 1].ev = "sleep"
          /\ k = Budget - 1
             => /\ \A j \in (i + 1)..Len(trace) : trace[j].ev \notin {"sleep", "fn"}
                /\ i < Len(trace)
                   => /\ trace[i + 1].ev = "acquire"
                      /\ pc \in {"invoke_fallback", "returned", "raised"}
                      /\ i + 1 < Len(trace) => trace[i + 2].ev = "fallback"
    /\ pc = "backoff" => LastEvent = "fn"
    /\ pc = "acquire_retry" => LastEvent = "sleep"
    /\ pc = "acquire_fallback" => LastEvent = "fn"

\* C33 witness: two retryable failures were followed by sleeps of 2 and 4
\* under a base delay of 2, each followed by an acquire and an invocation.
C33_Witness ==
    /\ Done
    /\ config.retry_base_delay = 2
    /\ fnCalls = 3
    /\ Len(trace) >= 8
    /\ trace[3] = Event("sleep", 2)
    /\ trace[4].ev = "acquire"
    /\ trace[5].ev = "fn"
    /\ trace[6] = Event("sleep", 4)
    /\ trace[7].ev = "acquire"
    /\ trace[8].ev = "fn"

\* The errors _should_fallback accepts among the scripted ones.
EligibleTexts == FallbackOnlyTexts \cup RetryableEligibleTexts

\* C34: fallback_fn is invoked at most once per call, and only if the
\* caller's profile enables the fallback, a fallback_fn was supplied and the
\* last error of fn is eligible; a call that failed in any other case raised
\* the last error of fn unchanged, without a cause, and never invoked
\* fallback_fn.
C34_FallbackAtMostOnceAndOnlyIfWanted ==
    LET wanted == /\ config.fallback_enabled
                  /\ callIn.fallback # "none"
                  /\ last_exception \in EligibleTexts
    IN /\ fbCalls <= 1
       /\ (fbCalls = 1 \/ pc \in {"acquire_fallback", "invoke_fallback"}) => wanted
       /\ (pc = "raised" /\ ~wanted)
          => /\ fbCalls = 0
             /\ Count("fallback") = 0
             /\ fnCalls >= 1
             /\ outcome = [kind |-> "raised",
                           value |-> callIn.script[fnCalls],
                           cause |-> ""]

\* C34 witness: with the fallback disabled, a call whose fn failed with an
\* eligible error although a fallback_fn was supplied has raised that error.
C34_Witness ==
    /\ pc = "raised"
    /\ ~config.fallback_enabled
    /\ callIn.fallback = "ok"
    /\ callIn.script = <<"Error code: 404 - No endpoints found">>
    /\ fbCalls = 0
    /\ outcome.value = "Error code: 404 - No endpoints found"


(***************************************************************************)
(* Claims about the model calls of the JSON phases of a cycle.             *)
(***************************************************************************)
JsonPhases == {"ANALYZE", "SELECT", "ADAPT", "STRUCTURE", "VERIFY"}

\* C35: each of ANALYZE, SELECT, ADAPT, STRUCTURE and VERIFY calls its model
\* at most 3 times in a cycle, and VERIFY, like the others, stops at the
\* first response that parses: when its first response parses it has issued
\* exactly one model call.
C35_PhaseCallBudget ==
    /\ lastCalls.phase \in JsonPhases => lastCalls.calls \in 1..ParseRetries
    /\ lastCalls.phase = "VERIFY"
       => \A responses1, responses2 \in VerificationScripts :
             responses1[1].kind = "json"
             => verify_plan(responses1, responses2).calls = 1

\* The same budget for the four phases before VERIFY.
PhaseCallBudgetBeforeVerify ==
    lastCalls.phase \in JsonPhases \ {"VERIFY"}
    => lastCalls.calls \in 1..ParseRetries


(***************************************************************************)
(* Claims about the plan between the attempts of execute_with_critic.      *)
(***************************************************************************)
InLoop == epc \in {"execute", "critique", "restructure"}

\* The restructure call of this step answered a plan with at least one step.
RestructureGaveSteps ==
    /\ epc = "restructure"
    /\ lastCalls'.phase = "RESTRUCTURE"
    /\ ~lastCalls'.fell_back
    /\ new_plan'.steps > 0

\* C36: between attempts the current plan changes only by becoming the plan
\* restructure_plan returned, and only when the critique scored below 0.8,
\* its reason carries a plan-deficiency signal, an attempt remains and the
\* new plan has a step; then it does change.  In every other case the next
\* EXECUTE starts with the identical plan; it always starts with the latest
\* critic feedback, and it hands the current plan to the worker.
C36_PlanChangesOnlyByRestructure ==
    [][InLoop =>
         /\ current_plan' # current_plan
            => /\ RestructureGaveSteps
               /\ current_plan' = new_plan'
               /\ evaluation.score < 80
               /\ NeedsReplan[evaluation.reason]
               /\ loop_attempt + 1 < max_retries
         /\ RestructureGaveSteps => current_plan' = new_plan'
         /\ (epc = "critique" /\ epc' = "restructure")
            => /\ evaluation'.score < 80
               /\ NeedsReplan[evaluation'.reason]
               /\ loop_attempt + 1 < max_retries
         /\ (epc # "execute" /\ epc' = "execute")
            => /\ feedback' = evaluation'.feedback
               /\ loop_attempt' = loop_attempt + 1
               /\ ~RestructureGaveSteps => current_plan' = current_plan
         /\ (epc = "execute" /\ epc' = "critique")
            => current_response'.plan = current_plan
      ]_vars

\* C36 witness: the second attempt is about to start with a restructured
\* plan after a first critique under 0.8 that named the plan.
C36_Witness ==
    /\ epc = "execute"
    /\ loop_attempt = 1
    /\ current_plan.name = "restructured"
    /\ current_plan = new_plan
    /\ evaluation.score < 80
    /\ evaluation.reason = PlanFeedback
    /\ feedback = evaluation.feedback

\* C36 second witness: a restructure that answered a plan without steps left
\* the plan as it was, and the next attempt is about to start.
C36_WitnessKept ==
    /\ epc = "execute"
    /\ loop_attempt = 1
    /\ lastCalls = Calls("RESTRUCTURE", 1, FALSE)
    /\ new_plan.steps = 0
    /\ current_plan.name # "restructured"


(***************************************************************************)
(* Claims about the registry of profiles and limiters.                     *)
(***************************************************************************)
\* The step is a set_resilience_config: neither the clock nor the number of
\* calls moves.
SetStep == now' = now /\ roleCalls' = roleCalls

\* The step starts a call.
CallStep == roleCalls' = roleCalls + 1

\* C37: set_resilience_config(key, p) swaps the profile and updates the
\* limiter in one step: after it the registry holds p for key, a limiter
\* that existed for key has the rate set from p.rate_limit (at least 0.1)
\* with its tokens and its refill time untouched, a limiter is not created,
\* and the profiles and limiters of the other keys are unchanged; a call
\* that starts on a key runs under the profile the registry holds for it,
\* which no call replaces.
C37_SetProfileIsAtomic ==
    [][/\ SetStep
          => LET key == lastOp'.arg.key
                 p == lastOp'.arg.profile
                 old == _rate_limiters[key]
             IN /\ lastOp'.op = "set_resilience_config"
                /\ _resilience_configs'[key] = p
                /\ old.made
                   => _rate_limiters'[key] =
                         [old EXCEPT !.rate = IF p.rate_limit >= 1
                                              THEN p.rate_limit ELSE 1]
                /\ ~old.made => _rate_limiters'[key] = old
                /\ \A other \in Keys \ {key} :
                      /\ _resilience_configs'[other] = _resilience_configs[other]
                      /\ _rate_limiters'[other] = _rate_limiters[other]
       /\ CallStep
          => LET key == lastOp'.arg.key IN
             /\ config' = _resilience_configs'[key]
             /\ _resilience_configs[key] # NoConfig
                => _resilience_configs' = _resilience_configs
      ]_vars

\* C37 witness: the limiter of "openrouter", created at 1 req/s and emptied
\* by a call, has been set to 2 req/s by a new profile, its bucket still
\* empty.
C37_Witness ==
    /\ lastOp.op = "set_resilience_config"
    /\ lastOp.arg.key = "openrouter"
    /\ lastOp.arg.profile.rate_limit = 20
    /\ _resilience_configs["openrouter"] = lastOp.arg.profile
    /\ _rate_limiters["openrouter"] =
          [made |-> TRUE, rate |-> 20, tokens |-> 0, last_update |-> 0]

\* C40: every limiter of the registry has a rate of at least 0.1 req/s,
\* whatever profiles were set before or after it was created, and no acquire
\* divides by zero.
C40_RegistryRateFloor ==
    /\ \A key \in Keys : _rate_limiters[key].made => _rate_limiters[key].rate >= 1
    /\ lastOp.op # "ZeroDivisionError"

\* The floor holds for a limiter that exists when its key's profile is set.
RateFloorAfterSet ==
    \A key \in Keys :
        (_rate_limiters[key].made /\ lastOp.op = "set_resilience_config"
            /\ lastOp.arg.key = key)
        => _rate_limiters[key].rate >= 1


(***************************************************************************)
(* Claims about the fallback of the gateway clients.                       *)
(***************************************************************************)
\* C31: a gateway client that falls back never sends the prompt to its own
\* primary model, whatever the shared cache holds and whichever client
\* filled it; it chooses one model and sends the prompt to it once (a second
\* time, without response_format, only after a 400 to a request that asked
\* for JSON); and when the cache holds no other model the fallback raises
\* without any request, the primary included.
C31_FallbackNeverPrimary ==
    \A c \in GatewayClients :
        LET f == fallbacks[c] IN
        /\ f.model # _model_name[c]
        /\ \A i \in 1..Len(f.requests) :
              /\ f.requests[i].model = f.model
              /\ f.requests[i].model \in Models \ {_model_name[c]}
        /\ Len(f.requests) <= 2
        /\ Len(f.requests) = 2
           => /\ f.json
              /\ f.requests[1].response_format
              /\ ~f.requests[2].response_format
        /\ f.pc \in {"requesting", "requesting_again", "returned"}
           => Len(f.requests) >= 1
        /\ f.error = NoModelError
           => f.pc = "raised" /\ f.requests = <<>> /\ f.model = ""
        /\ (f.pc = "raised" /\ f.requests = <<>>) => f.error = NoModelError

\* C31 witness: client c1 fell back to model-c and got its answer while the
\* cache, filled by client c2, held c1's own primary model.
C31_Witness ==
    /\ fallbacks["c1"].pc = "returned"
    /\ fallbacks["c1"].model = "model-c"
    /\ _free_models_cache = {"model-a", "model-c"}

\* C31 second witness: the cache holds nothing but c1's primary model and
\* c1's fallback has raised without a request.
C31_WitnessNoModel ==
    /\ _free_models_cache = {"model-a"}
    /\ fallbacks["c1"].pc = "raised"
    /\ fallbacks["c1"].error = NoModelError

\* C38: apart from limiter tokens and profiles, no step of one cycle changes
\* state another cycle reads: a step of one client's fallback leaves the
\* cache of fallback models, and with it the models the other client can
\* choose, as they were.
C38_CyclesShareOnlyRegistry ==
    [][\A c \in GatewayClients :
          fallbacks'[c] # fallbacks[c]
          => /\ _free_models_cache' = _free_models_cache
             /\ \A d \in GatewayClients \ {c} :
                   available(_free_models_cache', _model_name[d])
                      = available(_free_models_cache, _model_name[d])
      ]_vars


(***************************************************************************)
(* Claims about the progress events of a cycle.                            *)
(***************************************************************************)
\* C39: when run_full_cycle returns, every stage that was given an 'active'
\* event has since been given a 'completed' or 'error' event, and a cycle
\* that returns a result has emitted 'Final' 'completed' exactly once.
C39_ProgressWellPaired ==
    (entry = "run_full_cycle" /\ epc = "done")
    => /\ progress.open = {}
       /\ result.kind = "result" => progress.finals = 1

\* The stages whose events are paired at every return of run_full_cycle, and
\* the single 'Final' event of the results accepted by the critic.
ProgressPairedStages ==
    (entry = "run_full_cycle" /\ epc = "done")
    => /\ progress.open \subseteq {"Task Input", "Structuring", "Synthesizing"}
       /\ (result.kind = "result" /\ ~result.failed_validation)
          => progress.finals = 1

====
